---- MODULE Spec2Model ----
(***************************************************************************)
(* A model of the collision-avoidance core of navigation_3d_rs: the        *)
(* geometry primitives (crates/geometry), the velocity-obstacle            *)
(* constructors and the 2D/3D/4D incremental optimizers (crates/orca).     *)
(*                                                                         *)
(* Numbers.  The code computes in f32.  The model computes exactly in the  *)
(* field Q(sqrt 26): a number is <<p, q, d>>, meaning (p + q*sqrt(26))/d   *)
(* with d > 0 and gcd(p, q, d) = 1.  sqrt(26)/5 is the length of the 4D    *)
(* normal (n, 0.2) that optimize_velocity_3d builds from a unit normal n,  *)
(* so the 4D fallback is exact for axis-parallel planes; q = 0 is the      *)
(* plain rational case used by the 2D and 3D code.  The IEEE specials are  *)
(* kept: <<0,0,0>> is NaN, <<1,0,0>> is +inf and <<-1,0,0>> is -inf, with  *)
(* the IEEE rules for them (x/0, inf-inf, 0*inf, comparisons with NaN).    *)
(* A square root that is not in the field is rounded down to a rational    *)
(* (FSqrt), as the f32 square root is rounded.                             *)
(*                                                                         *)
(* Intermediate values of the code are passed as operator parameters       *)
(* (the operators named ..._at, ..._with) rather than bound by LET.        *)
(***************************************************************************)
EXTENDS Integers, Sequences, FiniteSets, TLC

(***************************************************************************)
(* f32 arithmetic                                                          *)
(***************************************************************************)
IAbs(n) == IF n < 0 THEN -n ELSE n

RECURSIVE GCD(_, _)
GCD(a, b) == IF b = 0 THEN a ELSE GCD(b, a % b)

NaN == <<0, 0, 0>>
PInf == <<1, 0, 0>>
NInf == <<-1, 0, 0>>

Reduce(p, q, d, g) == <<p \div g, q \div g, d \div g>>

\* (p + q sqrt 26)/d in lowest terms, d > 0
Norm(p, q, d) ==
    IF d < 0 THEN Reduce(-p, -q, -d, GCD(GCD(IAbs(p), IAbs(q)), IAbs(d)))
    ELSE Reduce(p, q, d, GCD(GCD(IAbs(p), IAbs(q)), IAbs(d)))

Frac(n, d) == Norm(n, 0, d)
FInt(n) == <<n, 0, 1>>
Zero == <<0, 0, 1>>
One == <<1, 0, 1>>
Two == <<2, 0, 1>>

IsNaN(x) == x = NaN
IsFinite(x) == x[3] > 0

\* sign of p - m sqrt 26 for integers p, m > 0, by the continued fraction of
\* sqrt 26 = [5; 10, 10, ...], which keeps the numbers small
RECURSIVE SurdCompare(_, _)
SurdCompare(p, m) ==
    IF p \div m >= 6 THEN 1
    ELSE IF p \div m <= 4 THEN -1
    ELSE IF p = 5 * m THEN -1
    ELSE IF 10 * (p - 5 * m) >= m THEN 1
    ELSE -SurdCompare(m - 5 * (p - 5 * m), p - 5 * m)

\* sign of p + q sqrt 26 for integers p, q
SurdSign(p, q) ==
    IF q = 0 THEN (IF p > 0 THEN 1 ELSE IF p < 0 THEN -1 ELSE 0)
    ELSE IF p = 0 THEN (IF q > 0 THEN 1 ELSE -1)
    ELSE IF p > 0 /\ q > 0 THEN 1
    ELSE IF p < 0 /\ q < 0 THEN -1
    ELSE IF p > 0 THEN SurdCompare(p, -q)
    ELSE -SurdCompare(-p, q)

\* -1, 0, 1 for a number that is not NaN
Sgn(x) == IF x[3] = 0 THEN x[1] ELSE SurdSign(x[1], x[2])

FNeg(x) == <<-x[1], -x[2], x[3]>>

\* finite x + y over the least common denominator, g = gcd of the denominators
FAdd_with(x, y, g) ==
    Norm(x[1] * (y[3] \div g) + y[1] * (x[3] \div g),
         x[2] * (y[3] \div g) + y[2] * (x[3] \div g), (x[3] \div g) * y[3])

FAdd(x, y) ==
    IF x[3] > 0 /\ y[3] > 0
    THEN IF x[3] = 1 /\ y[3] = 1 THEN <<x[1] + y[1], x[2] + y[2], 1>>
         ELSE FAdd_with(x, y, GCD(x[3], y[3]))
    ELSE IF IsNaN(x) \/ IsNaN(y) THEN NaN
    ELSE IF x[3] = 0 /\ y[3] = 0 THEN (IF x = y THEN x ELSE NaN)
    ELSE IF x[3] = 0 THEN x ELSE y

FSub(x, y) == FAdd(x, FNeg(y))

\* finite x * y, with the factor g of x's numerator and y's denominator and
\* the factor h of y's numerator and x's denominator cancelled first
FMul_with(x, y, g, h) ==
    Norm((x[1] \div g) * (y[1] \div h) + 26 * (x[2] \div g) * (y[2] \div h),
         (x[1] \div g) * (y[2] \div h) + (x[2] \div g) * (y[1] \div h),
         (x[3] \div h) * (y[3] \div g))

FMul(x, y) ==
    IF x[3] > 0 /\ y[3] > 0
    THEN FMul_with(x, y, GCD(GCD(IAbs(x[1]), IAbs(x[2])), y[3]),
                   GCD(GCD(IAbs(y[1]), IAbs(y[2])), x[3]))
    ELSE IF IsNaN(x) \/ IsNaN(y) THEN NaN
    ELSE IF Sgn(x) * Sgn(y) = 0 THEN NaN
    ELSE <<Sgn(x) * Sgn(y), 0, 0>>

\* 1/x for finite x # 0: the conjugate over the norm p^2 - 26 q^2
Recip(x) ==
    IF x[2] = 0 THEN Norm(x[3], 0, x[1])
    ELSE IF x[1] = 0 THEN Norm(0, x[3], 26 * x[2])
    ELSE Norm(x[1] * x[3], -x[2] * x[3], x[1] * x[1] - 26 * x[2] * x[2])

FDiv(x, y) ==
    IF x[3] > 0 /\ y[3] > 0
    THEN IF y[1] = 0 /\ y[2] = 0
         THEN (IF x[1] = 0 /\ x[2] = 0 THEN NaN ELSE <<Sgn(x), 0, 0>>)
         ELSE FMul(x, Recip(y))
    ELSE IF IsNaN(x) \/ IsNaN(y) THEN NaN
    ELSE IF x[3] = 0 /\ y[3] = 0 THEN NaN
    ELSE IF y[3] = 0 THEN Zero
    ELSE <<x[1] * (IF Sgn(y) < 0 THEN -1 ELSE 1), 0, 0>>

\* comparisons: every comparison with NaN is false
FLt_with(x, y, g) ==
    SurdSign(x[1] * (y[3] \div g) - y[1] * (x[3] \div g),
             x[2] * (y[3] \div g) - y[2] * (x[3] \div g)) < 0

FLt(x, y) ==
    IF IsNaN(x) \/ IsNaN(y) THEN FALSE
    ELSE IF x[3] > 0 /\ y[3] > 0 THEN FLt_with(x, y, GCD(x[3], y[3]))
    ELSE IF x[3] = 0 /\ y[3] = 0 THEN x[1] < y[1]
    ELSE IF x[3] = 0 THEN x[1] < 0 ELSE y[1] > 0

FLe(x, y) == IF IsNaN(x) \/ IsNaN(y) THEN FALSE ELSE x = y \/ FLt(x, y)
FGt(x, y) == FLt(y, x)
FGe(x, y) == FLe(y, x)

FAbs(x) == IF IsNaN(x) THEN NaN ELSE IF Sgn(x) < 0 THEN FNeg(x) ELSE x

\* f32::min and f32::max return the other operand when one is NaN
FMin(x, y) == IF IsNaN(x) THEN y ELSE IF IsNaN(y) THEN x ELSE IF FLt(y, x) THEN y ELSE x
FMax(x, y) == IF IsNaN(x) THEN y ELSE IF IsNaN(y) THEN x ELSE IF FLt(x, y) THEN y ELSE x

\* f32::signum: 1.0 for +0.0 and positive, -1.0 for negative, NaN for NaN
FSignum(x) == IF IsNaN(x) THEN NaN ELSE IF Sgn(x) < 0 THEN FNeg(One) ELSE One

RECURSIVE ISqrtBS(_, _, _)
ISqrtBS(n, lo, hi) ==
    IF lo >= hi THEN lo
    ELSE IF ((lo + hi + 1) \div 2) * ((lo + hi + 1) \div 2) <= n
         THEN ISqrtBS(n, (lo + hi + 1) \div 2, hi)
    ELSE ISqrtBS(n, lo, ((lo + hi + 1) \div 2) - 1)

\* floor of the square root of a natural number
ISqrt(n) == ISqrtBS(n, 0, IF n < 46340 THEN n ELSE 46340)

\* the scale at which an inexact root of m/(d*d) is rounded down
RootScale(m) == IF m < 2000 THEN 1000 ELSE IF m < 200000 THEN 100
                ELSE IF m < 20000000 THEN 10 ELSE 1

\* sqrt(m)/d for an m that is no square, rounded down
SqrtInexact(m, d) ==
    Norm(ISqrt(m * RootScale(m) * RootScale(m)), 0, d * RootScale(m))

\* sqrt(n/d) given the floors sn, sd, tn, td of the square roots of n, d, n/26
\* and d/26: exact when it lies in the field, otherwise rounded down
SqrtRat_with(n, d, sn, sd, tn, td) ==
    IF sn * sn = n /\ sd * sd = d THEN Norm(sn, 0, sd)
    ELSE IF 26 * tn * tn = n /\ sd * sd = d THEN Norm(0, tn, sd)
    ELSE IF sn * sn = n /\ 26 * td * td = d THEN Norm(0, sn, 26 * td)
    ELSE SqrtInexact(n * d, d)

\* square root of a rational n/d >= 0 in lowest terms
SqrtRat(n, d) ==
    SqrtRat_with(n, d, ISqrt(n), ISqrt(d), ISqrt(n \div 26), ISqrt(d \div 26))

\* a rational just below a finite number: 515/101 < sqrt 26 < 5201/1020
RatBelow(x) ==
    IF x[2] = 0 THEN x
    ELSE IF x[2] > 0 THEN Norm(x[1] * 101 + x[2] * 515, 0, x[3] * 101)
    ELSE Norm(x[1] * 1020 + x[2] * 5201, 0, x[3] * 1020)

SqrtOfRat(r) == IF r[1] < 0 THEN Zero ELSE SqrtRat(r[1], r[3])

FSqrt(x) ==
    IF IsNaN(x) THEN NaN
    ELSE IF x[3] = 0 THEN (IF x[1] > 0 THEN PInf ELSE NaN)
    ELSE IF Sgn(x) < 0 THEN NaN
    ELSE SqrtOfRat(RatBelow(x))

\* the product of two square roots, sqrt(x) * sqrt(y) = sqrt(x * y)
FSqrtProd(x, y) ==
    IF FLt(x, Zero) \/ FLt(y, Zero) THEN NaN ELSE FSqrt(FMul(x, y))

\* f32::clamp panics when min > max or a bound is NaN
FClampOk(lo, hi) == FLe(lo, hi)
FClamp(x, lo, hi) ==
    IF IsNaN(x) THEN NaN
    ELSE IF FLt(x, lo) THEN lo ELSE IF FGt(x, hi) THEN hi ELSE x

EPSILON == <<1, 0, 10000>>

(***************************************************************************)
(* Vectors (bevy_math Vec2, Vec3, Vec4) are tuples of numbers.             *)
(***************************************************************************)
RECURSIVE VAddTo(_, _, _)
VAddTo(a, b, k) == IF k = 0 THEN <<>> ELSE Append(VAddTo(a, b, k - 1), FAdd(a[k], b[k]))

RECURSIVE VMulTo(_, _, _)
VMulTo(a, s, k) == IF k = 0 THEN <<>> ELSE Append(VMulTo(a, s, k - 1), FMul(a[k], s))

RECURSIVE DotTo(_, _, _)
DotTo(a, b, k) ==
    IF k = 1 THEN FMul(a[1], b[1]) ELSE FAdd(DotTo(a, b, k - 1), FMul(a[k], b[k]))

vadd(a, b) == VAddTo(a, b, Len(a))
vmul(a, s) == VMulTo(a, s, Len(a))
vneg(a) == vmul(a, FInt(-1))
vsub(a, b) == vadd(a, vneg(b))
dot(a, b) == DotTo(a, b, Len(a))

length_squared(a) == dot(a, a)
length(a) == FSqrt(length_squared(a))

\* glam: self * self.length().recip(); the zero vector gives 0 * inf = NaN
normalize(a) == vmul(a, FDiv(One, length(a)))

cross(a, b) ==
    <<FSub(FMul(a[2], b[3]), FMul(a[3], b[2])),
      FSub(FMul(a[3], b[1]), FMul(a[1], b[3])),
      FSub(FMul(a[1], b[2]), FMul(a[2], b[1]))>>

perp(a) == <<FNeg(a[2]), a[1]>>

xyz(a) == <<a[1], a[2], a[3]>>

VecFinite(a) == \A k \in 1..Len(a) : IsFinite(a[k])

P2(x, y) == <<FInt(x), FInt(y)>>
P3(x, y, z) == <<FInt(x), FInt(y), FInt(z)>>
P4(x, y, z, w) == <<FInt(x), FInt(y), FInt(z), FInt(w)>>

Vec3_X == P3(1, 0, 0)
Vec3_Y == P3(0, 1, 0)
Vec3_Z == P3(0, 0, 1)
Vec4_X == P4(1, 0, 0, 0)
Vec4_Y == P4(0, 1, 0, 0)
Vec4_Z == P4(0, 0, 1, 0)
Vec4_W == P4(0, 0, 0, 1)

None == [some |-> FALSE]
Some(x) == [some |-> TRUE, value |-> x]

RECURSIVE FSum(_)
FSum(s) == IF Len(s) = 1 THEN s[1] ELSE FAdd(FSum(SubSeq(s, 1, Len(s) - 1)), s[Len(s)])

RECURSIVE FProd(_)
FProd(s) == IF Len(s) = 1 THEN s[1] ELSE FMul(FProd(SubSeq(s, 1, Len(s) - 1)), s[Len(s)])

(***************************************************************************)
(* geometry: HalfPlane, Ray2D, LineSegment2D, Circle                       *)
(***************************************************************************)
HalfPlane_new(point, normal) == [normal |-> normalize(normal), point |-> point]

HalfPlane_signed_distance(hp, pt) == dot(hp.normal, vsub(pt, hp.point))

HalfPlane_contains(hp, pt) == FGe(HalfPlane_signed_distance(hp, pt), FNeg(EPSILON))

Ray2D_new(origin, direction) == [origin |-> origin, direction |-> direction]

NoIntersection == [kind |-> "None"]
PointAt(t) == [kind |-> "Point", t |-> t]
SegmentAt(t_min, t_max) == [kind |-> "LineSegment", t_min |-> t_min, t_max |-> t_max]

PointUnlessParallel(numerator, denominator) ==
    IF FLe(FAbs(denominator), EPSILON) THEN NoIntersection
    ELSE PointAt(FDiv(numerator, denominator))

\* the slope branches of Ray2D::intersect; (a, b) is (x, y) when the other
\* line is flatter than 45 degrees and (y, x) otherwise:
\* t = -(slope * p_a - p_b + intercept) / (d_a * slope - d_b)
Ray2D_intersect_slope(p_a, p_b, d_a, d_b, o_a, o_b, slope) ==
    PointUnlessParallel(FNeg(FAdd(FSub(FMul(slope, p_a), p_b),
                                  FSub(o_b, FMul(slope, o_a)))),
                        FSub(FMul(d_a, slope), d_b))

\* the parameter t of (point, direction) at which it meets the other line
Ray2D_intersect_at(point, direction, other_point, other_direction) ==
    IF FLe(FAbs(FSub(FMul(direction[1], other_direction[2]),
                     FMul(direction[2], other_direction[1]))), EPSILON)
    THEN NoIntersection
    ELSE IF FLe(FAbs(other_direction[1]), EPSILON)
         THEN PointAt(FDiv(FSub(other_point[1], point[1]), direction[1]))
    ELSE IF FLe(FAbs(other_direction[2]), EPSILON)
         THEN PointAt(FDiv(FSub(other_point[2], point[2]), direction[2]))
    ELSE IF FGt(FAbs(other_direction[1]), FAbs(other_direction[2]))
         THEN Ray2D_intersect_slope(point[1], point[2], direction[1], direction[2],
                                    other_point[1], other_point[2],
                                    FDiv(other_direction[2], other_direction[1]))
    ELSE Ray2D_intersect_slope(point[2], point[1], direction[2], direction[1],
                               other_point[2], other_point[1],
                               FDiv(other_direction[1], other_direction[2]))

Ray2D_intersect(self, ray) ==
    Ray2D_intersect_at(self.origin, self.direction, ray.origin, ray.direction)

LineSegment2D_new(origin, direction, t_min, t_max) ==
    [origin |-> origin, direction |-> direction, t_min |-> t_min, t_max |-> t_max]

\* f32::clamp panics unless t_min <= t_max
LineSegment2D_constrain_panics(seg) == ~FClampOk(seg.t_min, seg.t_max)

LineSegment2D_constrain(seg, pt) ==
    vadd(seg.origin,
         vmul(seg.direction,
              FClamp(dot(vsub(pt, seg.origin), seg.direction), seg.t_min, seg.t_max)))

Circle_new(radius, origin) == [shape |-> "Circle", radius |-> radius, origin |-> origin]

Circle_contains(c, pt) ==
    FLe(length_squared(vsub(pt, c.origin)), FMul(c.radius, c.radius))

Circle_constrain_at(c, pt, relative_pt) ==
    IF FGt(length_squared(relative_pt), FMul(c.radius, c.radius))
    THEN vadd(c.origin, vmul(normalize(relative_pt), c.radius))
    ELSE pt

Circle_constrain(c, pt) == Circle_constrain_at(c, pt, vsub(pt, c.origin))

\* the parameter of the tangent point (circle.rs:116-122)
Circle_tangent_at(point, direction, dr, d) ==
    IF FLt(FAbs(direction[1]), FAbs(direction[2]))
    THEN FDiv(FSub(FDiv(FMul(FNeg(d), direction[1]), FMul(dr, dr)), point[2]),
              direction[2])
    ELSE FDiv(FSub(FDiv(FMul(d, direction[2]), FMul(dr, dr)), point[1]),
              direction[1])

\* ta with root = sqrt(discriminant), tb with root = -sqrt(discriminant)
\* (circle.rs:126-144)
Circle_secant_at(point, direction, dr, d, root) ==
    IF FLt(FAbs(direction[1]), FAbs(direction[2]))
    THEN FDiv(FSub(FAdd(FMul(FNeg(d), direction[1]),
                        FDiv(FMul(FAbs(direction[2]), root), FMul(dr, dr))),
                   point[2]),
              direction[2])
    ELSE FDiv(FSub(FDiv(FAdd(FMul(d, direction[2]),
                             FProd(<<FSignum(direction[2]), direction[1], root>>)),
                        FMul(dr, dr)),
                   point[1]),
              direction[1])

Circle_segment(ta, tb) == SegmentAt(FMin(ta, tb), FMax(ta, tb))

Circle_intersect_with(point, direction, dr, d, discriminant) ==
    IF FLt(discriminant, Zero) THEN NoIntersection
    ELSE IF FLt(discriminant, EPSILON)
         THEN PointAt(Circle_tangent_at(point, direction, dr, d))
    ELSE Circle_segment(Circle_secant_at(point, direction, dr, d, FSqrt(discriminant)),
                        Circle_secant_at(point, direction, dr, d,
                                         FNeg(FSqrt(discriminant))))

Circle_intersect_at(point, direction, radius, dr, d) ==
    Circle_intersect_with(point, direction, dr, d,
                          FSub(FProd(<<radius, radius, dr, dr>>), FMul(d, d)))

\* d = x1 * y2 - x2 * y1 for the points (x1, y1) and (x2, y2) = point + direction
Circle_intersect_from(point, direction, radius) ==
    Circle_intersect_at(point, direction, radius, length(direction),
                        FSub(FMul(point[1], FAdd(point[2], direction[2])),
                             FMul(FAdd(point[1], direction[1]), point[2])))

Circle_intersect(c, ray) ==
    Circle_intersect_from(vsub(ray.origin, c.origin), ray.direction, c.radius)

(***************************************************************************)
(* geometry: Plane, Sphere                                                 *)
(***************************************************************************)
\* the axis Plane::new crosses the normal with (plane.rs:45-57)
Plane_basis(normal) ==
    IF FLt(FAbs(dot(Vec3_X, normal)), FAbs(dot(Vec3_Y, normal)))
       /\ FLt(FAbs(dot(Vec3_X, normal)), FAbs(dot(Vec3_Z, normal)))
    THEN Vec3_X
    ELSE IF FLt(FAbs(dot(Vec3_Y, normal)), FAbs(dot(Vec3_Z, normal))) THEN Vec3_Y
    ELSE Vec3_Z

Plane_new_with(origin, normal, u_direction) ==
    [normal |-> normal, origin |-> origin, u_direction |-> u_direction,
     v_direction |-> normalize(cross(normal, u_direction))]

Plane_new_at(origin, normal) ==
    Plane_new_with(origin, normal, normalize(cross(normal, Plane_basis(normal))))

Plane_new(origin, normal) == Plane_new_at(origin, normalize(normal))

Plane_project_2d(plane, p) ==
    <<dot(plane.u_direction, vsub(p, plane.origin)),
      dot(plane.v_direction, vsub(p, plane.origin))>>

Plane_project_3d(plane, p) ==
    vadd(vadd(plane.origin, vmul(plane.u_direction, p[1])), vmul(plane.v_direction, p[2]))

Plane_signed_distance(plane, pt) == dot(plane.normal, vsub(pt, plane.origin))

Plane_contains(plane, pt) == FGe(Plane_signed_distance(plane, pt), FNeg(EPSILON))

Plane_constrain(plane, pt) ==
    vadd(pt, vmul(plane.normal,
                  FSub(dot(plane.normal, plane.origin), dot(plane.normal, pt))))

Plane_closest_point_and_normal(plane, pt) ==
    <<vadd(pt, vmul(plane.normal,
                    FSub(dot(plane.normal, plane.origin), dot(plane.normal, pt)))),
      plane.normal>>

Sphere_new(radius, origin) == [shape |-> "Sphere", radius |-> radius, origin |-> origin]

Sphere_contains(s, pt) ==
    FLe(length_squared(vsub(pt, s.origin)), FMul(s.radius, s.radius))

Sphere_constrain_at(s, pt, relative_pt) ==
    IF FLe(length_squared(relative_pt), FMul(s.radius, s.radius)) THEN pt
    ELSE vadd(s.origin, vmul(normalize(relative_pt), s.radius))

Sphere_constrain(s, pt) == Sphere_constrain_at(s, pt, vsub(pt, s.origin))

\* <<closest point, normal>>
Sphere_closest_point_and_normal_at(s, pt, relative_pt) ==
    IF FLe(length_squared(relative_pt), FMul(s.radius, s.radius))
    THEN <<pt, normalize(relative_pt)>>
    ELSE <<vadd(s.origin, vmul(normalize(relative_pt), s.radius)),
           normalize(relative_pt)>>

Sphere_closest_point_and_normal(s, pt) ==
    Sphere_closest_point_and_normal_at(s, pt, vsub(pt, s.origin))

Sphere_intersect_plane_with(s, plane, plane_pt, origin_distance) ==
    IF FGt(origin_distance, s.radius) THEN None
    ELSE Some(Circle_new(FSqrt(FSub(FMul(s.radius, s.radius),
                                    FMul(origin_distance, origin_distance))),
                         Plane_project_2d(plane, plane_pt)))

Sphere_intersect_plane_at(s, plane, plane_pt) ==
    Sphere_intersect_plane_with(s, plane, plane_pt, length(vsub(plane_pt, s.origin)))

Sphere_intersect_plane(s, plane) ==
    Sphere_intersect_plane_at(s, plane, Plane_constrain(plane, s.origin))

\* |side_length * cos(asin(radius / distance))|, which is
\* sqrt(distance^2 - radius^2) * sqrt(1 - (radius / distance)^2)
Sphere_distance_to_plane(radius, distance_from_point) ==
    FAbs(FSqrtProd(FSub(FMul(distance_from_point, distance_from_point),
                        FMul(radius, radius)),
                   FSub(One, FMul(FDiv(radius, distance_from_point),
                                  FDiv(radius, distance_from_point)))))

Sphere_get_secant_plane_with(s, direction, distance_from_point) ==
    Plane_new(vadd(vmul(direction,
                        FAbs(FSub(Sphere_distance_to_plane(s.radius, distance_from_point),
                                  distance_from_point))),
                   s.origin),
              vneg(direction))

Sphere_get_secant_plane_at(s, relative_pt) ==
    Sphere_get_secant_plane_with(s, normalize(relative_pt), length(relative_pt))

Sphere_get_secant_plane(s, point) == Sphere_get_secant_plane_at(s, vsub(point, s.origin))

HalfPlane_between(plane_pt, plane_pt2) ==
    HalfPlane_new(plane_pt, perp(normalize(vsub(plane_pt, plane_pt2))))

HalfPlane_from_plane_intersection_on(plane, other, pt) ==
    HalfPlane_between(Plane_project_2d(plane, pt),
                      Plane_project_2d(plane, vadd(pt, cross(plane.normal, other.normal))))

\* pt = plane.normal * k1 + other.normal * k2
HalfPlane_from_plane_intersection_with(plane, other, d1, d2, normals_dot, denominator) ==
    IF FLt(FAbs(denominator), EPSILON) THEN None
    ELSE Some(HalfPlane_from_plane_intersection_on(plane, other,
            vadd(vmul(plane.normal,
                      FDiv(FSub(d1, FMul(d2, normals_dot)), denominator)),
                 vmul(other.normal,
                      FDiv(FSub(d2, FMul(d1, normals_dot)), denominator)))))

HalfPlane_from_plane_intersection_at(plane, other, normals_dot) ==
    HalfPlane_from_plane_intersection_with(plane, other,
        dot(plane.normal, plane.origin), dot(other.normal, other.origin),
        normals_dot, FSub(One, FMul(normals_dot, normals_dot)))

\* the half-plane expressed in the coordinates of the other plane
HalfPlane_from_plane_intersection_swapped(plane, other) ==
    HalfPlane_from_plane_intersection_at(other, plane, dot(plane.normal, other.normal))

HalfPlane_from_plane_intersection(plane, other) ==
    HalfPlane_from_plane_intersection_at(plane, other, dot(plane.normal, other.normal))

(***************************************************************************)
(* geometry: Hyperplane, Spherinder and their intersections                *)
(***************************************************************************)
\* the three axes Hyperplane::new orthogonalises (hyperplane.rs:19-34)
Hyperplane_basis_of(x_dot, y_dot, z_dot, w_dot) ==
    IF FGt(x_dot, y_dot) /\ FGt(x_dot, z_dot) /\ FGt(x_dot, w_dot)
    THEN <<Vec4_Y, Vec4_Z, Vec4_W>>
    ELSE IF FGt(y_dot, z_dot) /\ FGt(y_dot, w_dot) THEN <<Vec4_X, Vec4_Z, Vec4_W>>
    ELSE IF FGt(z_dot, w_dot) THEN <<Vec4_X, Vec4_Y, Vec4_W>>
    ELSE <<Vec4_X, Vec4_Y, Vec4_Z>>

Hyperplane_basis(normal) ==
    Hyperplane_basis_of(FAbs(dot(Vec4_X, normal)), FAbs(dot(Vec4_Y, normal)),
                        FAbs(dot(Vec4_Z, normal)), FAbs(dot(Vec4_W, normal)))

\* one Gram-Schmidt subtraction: rest - direction * direction.dot(axis)
Reject(rest, direction, axis) == vsub(rest, vmul(direction, dot(direction, axis)))

Hyperplane_new_v(origin, normal, basis, u_direction, v_direction) ==
    [normal |-> normal, origin |-> origin, u_direction |-> u_direction,
     v_direction |-> v_direction,
     w_direction |-> normalize(Reject(Reject(Reject(basis[3], normal, basis[3]),
                                             u_direction, basis[3]),
                                      v_direction, basis[3]))]

Hyperplane_new_u(origin, normal, basis, u_direction) ==
    Hyperplane_new_v(origin, normal, basis, u_direction,
                     normalize(Reject(Reject(basis[2], normal, basis[2]),
                                      u_direction, basis[2])))

Hyperplane_new_with(origin, normal, basis) ==
    Hyperplane_new_u(origin, normal, basis, normalize(Reject(basis[1], normal, basis[1])))

Hyperplane_new_at(origin, normal) ==
    Hyperplane_new_with(origin, normal, Hyperplane_basis(normal))

Hyperplane_new(origin, normal) == Hyperplane_new_at(origin, normalize(normal))

Hyperplane_project_4d(h, p) ==
    vadd(vadd(vadd(h.origin, vmul(h.u_direction, p[1])), vmul(h.v_direction, p[2])),
         vmul(h.w_direction, p[3]))

Hyperplane_project_3d(h, p) ==
    <<dot(vsub(p, h.origin), h.u_direction),
      dot(vsub(p, h.origin), h.v_direction),
      dot(vsub(p, h.origin), h.w_direction)>>

Hyperplane_contains(h, pt) == FGe(dot(h.normal, vsub(pt, h.origin)), FNeg(EPSILON))

Hyperplane_constrain(h, pt) ==
    vadd(pt, vmul(h.normal, FSub(dot(h.normal, h.origin), dot(h.normal, pt))))

\* origin = d_result * normal (plane.rs:35-38)
Plane_from_hyperplane_intersection_with(normal, d_result) ==
    Plane_new(vmul(normal, d_result), normal)

Plane_from_hyperplane_intersection_at(plane, other, n) ==
    IF FLt(FAbs(n[1]), EPSILON) /\ FLt(FAbs(n[2]), EPSILON) /\ FLt(FAbs(n[3]), EPSILON)
    THEN None
    ELSE Some(Plane_from_hyperplane_intersection_with(normalize(n),
            FSub(dot(other.origin, other.normal), dot(plane.origin, other.normal))))

Plane_from_hyperplane_intersection(plane, other) ==
    Plane_from_hyperplane_intersection_at(plane, other,
        <<dot(plane.u_direction, other.normal), dot(plane.v_direction, other.normal),
          dot(plane.w_direction, other.normal)>>)

Spherinder_new(origin, radius) == [origin |-> origin, radius |-> radius]

Spherinder_rescale(s, new_xyz, w) ==
    vadd(s.origin, <<new_xyz[1], new_xyz[2], new_xyz[3], w>>)

Spherinder_constrain_at(s, pt, relative_pt) ==
    IF FLt(length_squared(xyz(relative_pt)), FMul(s.radius, s.radius)) THEN pt
    ELSE Spherinder_rescale(s, vmul(normalize(xyz(relative_pt)), s.radius), relative_pt[4])

Spherinder_constrain(s, pt) == Spherinder_constrain_at(s, pt, vsub(pt, s.origin))

\* Spherinder::intersect always yields the pair of the two shapes
SpherinderHyperplaneIntersecion_new(spherinder, hyperplane) ==
    [shape |-> "SpherinderHyperplane", spherinder |-> spherinder, hyperplane |-> hyperplane]

SpherinderHyperplaneIntersecion_constrain_at(h, constrained4d) ==
    IF FLt(FAbs(h.normal[4]), EPSILON) THEN Hyperplane_project_3d(h, constrained4d)
    ELSE Hyperplane_project_3d(h,
            <<constrained4d[1], constrained4d[2], constrained4d[3],
              FDiv(FSub(dot(h.normal, h.origin),
                        dot(xyz(h.normal), xyz(constrained4d))),
                   h.normal[4])>>)

SpherinderHyperplaneIntersecion_constrain(self, pt) ==
    SpherinderHyperplaneIntersecion_constrain_at(self.hyperplane,
        Spherinder_constrain(self.spherinder, Hyperplane_project_4d(self.hyperplane, pt)))

(***************************************************************************)
(* The ellipse a plane cuts out of the spherinder section.  Its transform  *)
(* is the rotation by theta_angle followed by the translation to center.   *)
(***************************************************************************)
HalfAngle_with(y, cos2) ==
    <<FNeg(FMul(FSignum(y), FSqrt(FDiv(FSub(One, cos2), Two)))),
      FSqrt(FDiv(FAdd(One, cos2), Two))>>

\* <<cos, sin>> of theta_angle = 0.5 * atan2(y, x) + PI / 2
HalfAnglePlusQuarterTurn(y, x) ==
    IF IsNaN(x) \/ IsNaN(y) THEN <<NaN, NaN>>
    ELSE IF Sgn(y) = 0 THEN IF Sgn(x) >= 0 THEN <<Zero, One>> ELSE <<One, Zero>>
    ELSE HalfAngle_with(y, FDiv(x, FSqrt(FAdd(FMul(x, x), FMul(y, y)))))

SpherinderHyperplanePlaneIntersection_new(semi_major_axis, semi_minor_axis, center, rot) ==
    [shape |-> "Ellipse", semi_major_axis |-> semi_major_axis,
     semi_minor_axis |-> semi_minor_axis, center |-> center,
     cos |-> rot[1], sin |-> rot[2]]

transform_vector2(e, p) ==
    <<FSub(FMul(e.cos, p[1]), FMul(e.sin, p[2])),
      FAdd(FMul(e.sin, p[1]), FMul(e.cos, p[2]))>>

transform_point2(e, p) == vadd(transform_vector2(e, p), e.center)

transform_inv_vector2(e, p) ==
    <<FAdd(FMul(e.cos, p[1]), FMul(e.sin, p[2])),
      FSub(FMul(e.cos, p[2]), FMul(e.sin, p[1]))>>

transform_inv_point2(e, p) == transform_inv_vector2(e, vsub(p, e.center))

\* <<cos, sin>> of atan2(y, x); atan2(0, 0) is 0
Atan2_cos_sin_with(x, y, len) == <<FDiv(x, len), FDiv(y, len)>>

Atan2_cos_sin(x, y) ==
    IF x = Zero /\ y = Zero THEN <<One, Zero>>
    ELSE Atan2_cos_sin_with(x, y, length(<<x, y>>))

Ellipse_boundary_point(e, cs) ==
    transform_point2(e, <<FMul(e.semi_major_axis, cs[1]), FMul(e.semi_minor_axis, cs[2])>>)

SpherinderHyperplanePlaneIntersection_constrain_at(e, pt, q) ==
    IF FLe(FAdd(FDiv(FMul(q[1], q[1]), FMul(e.semi_major_axis, e.semi_major_axis)),
                FDiv(FMul(q[2], q[2]), FMul(e.semi_minor_axis, e.semi_minor_axis))),
           One)
    THEN pt
    ELSE Ellipse_boundary_point(e, Atan2_cos_sin(q[1], q[2]))

SpherinderHyperplanePlaneIntersection_constrain(e, pt) ==
    SpherinderHyperplanePlaneIntersection_constrain_at(e, pt, transform_inv_point2(e, pt))

Ellipse_segment(root, h, denominator) ==
    SegmentAt(FMin(FDiv(FSub(FNeg(h), root), denominator),
                   FDiv(FAdd(FNeg(h), root), denominator)),
              FMax(FDiv(FSub(FNeg(h), root), denominator),
                   FDiv(FAdd(FNeg(h), root), denominator)))

SpherinderHyperplanePlaneIntersection_intersect_with(a, b, k, denominator, h) ==
    IF FLt(k, Zero) THEN NoIntersection
    ELSE IF FLt(FAbs(denominator), EPSILON) THEN NoIntersection
    ELSE IF FLt(FAbs(k), EPSILON) THEN PointAt(FDiv(FNeg(h), denominator))
    ELSE Ellipse_segment(FProd(<<FSqrt(k), a, b>>), h, denominator)

\* o and dv are the ray's origin and direction in ellipse space
SpherinderHyperplanePlaneIntersection_intersect_at(a, b, o, dv) ==
    SpherinderHyperplanePlaneIntersection_intersect_with(a, b,
        FSum(<<FProd(<<b, b, dv[1], dv[1]>>), FProd(<<a, a, dv[2], dv[2]>>),
               FNeg(FProd(<<dv[2], dv[2], o[1], o[1]>>)),
               FProd(<<Two, dv[1], dv[2], o[1], o[2]>>),
               FNeg(FProd(<<dv[1], dv[1], o[2], o[2]>>))>>),
        FAdd(FProd(<<b, b, dv[1], dv[1]>>), FProd(<<a, a, dv[2], dv[2]>>)),
        FAdd(FProd(<<b, b, dv[1], o[1]>>), FProd(<<a, a, dv[2], o[2]>>)))

SpherinderHyperplanePlaneIntersection_intersect(e, ray) ==
    SpherinderHyperplanePlaneIntersection_intersect_at(e.semi_major_axis,
        e.semi_minor_axis, transform_inv_point2(e, ray.origin),
        transform_inv_vector2(e, ray.direction))

\* the quadratic form a3*x*x' + a2*y*y' + a1*z*z' and its mixed terms, as the
\* coefficient sums of SpherinderHyperplaneIntersecion::intersect write them
ConicSquare(a, p) ==
    FSum(<<FProd(<<a[3], p[1], p[1]>>), FProd(<<a[6], p[1], p[2]>>),
           FProd(<<a[2], p[2], p[2]>>), FProd(<<a[5], p[1], p[3]>>),
           FProd(<<a[4], p[2], p[3]>>), FProd(<<a[1], p[3], p[3]>>)>>)

ConicMixed(a, p, q) ==
    FSum(<<FProd(<<Two, a[3], p[1], q[1]>>), FProd(<<a[6], q[1], p[2]>>),
           FProd(<<a[6], p[1], q[2]>>), FProd(<<Two, a[2], p[2], q[2]>>),
           FProd(<<a[5], q[1], p[3]>>), FProd(<<a[4], q[2], p[3]>>),
           FProd(<<a[5], p[1], q[3]>>), FProd(<<a[4], p[2], q[3]>>),
           FProd(<<Two, a[1], p[3], q[3]>>)>>)

ConicLinear(a, p) == FSum(<<FMul(a[9], p[1]), FMul(a[8], p[2]), FMul(a[7], p[3])>>)

\* a1 .. a10 of the section of the spherinder by the hyperplane
SpherinderHyperplaneIntersecion_coefficients(h, radius) ==
    <<length_squared(xyz(h.w_direction)), length_squared(xyz(h.v_direction)),
      length_squared(xyz(h.u_direction)),
      FMul(Two, dot(xyz(h.w_direction), xyz(h.v_direction))),
      FMul(Two, dot(xyz(h.w_direction), xyz(h.u_direction))),
      FMul(Two, dot(xyz(h.v_direction), xyz(h.u_direction))),
      FMul(Two, dot(xyz(h.w_direction), xyz(h.origin))),
      FMul(Two, dot(xyz(h.v_direction), xyz(h.origin))),
      FMul(Two, dot(xyz(h.u_direction), xyz(h.origin))),
      FSub(length_squared(xyz(h.origin)), FMul(radius, radius))>>

\* <<a, b, c, d, e, f>> of the ellipse the plane cuts out of the section
SpherinderHyperplaneIntersecion_conic(coef, plane) ==
    <<ConicSquare(coef, plane.v_direction),
      ConicMixed(coef, plane.u_direction, plane.v_direction),
      ConicSquare(coef, plane.u_direction),
      FAdd(ConicMixed(coef, plane.origin, plane.v_direction),
           ConicLinear(coef, plane.v_direction)),
      FAdd(ConicMixed(coef, plane.origin, plane.u_direction),
           ConicLinear(coef, plane.u_direction)),
      FSum(<<ConicSquare(coef, plane.origin), ConicLinear(coef, plane.origin), coef[10]>>)>>

SpherinderHyperplaneIntersecion_ellipse(q, determinant, i, j) ==
    IF FLt(FAbs(determinant), EPSILON) \/ FLt(i, Zero) \/ FLt(j, Zero) THEN None
    ELSE Some(SpherinderHyperplanePlaneIntersection_new(
            FDiv(FNeg(FSqrt(j)), determinant),
            FDiv(FNeg(FSqrt(i)), determinant),
            <<FDiv(FSub(FProd(<<Two, q[1], q[5]>>), FMul(q[2], q[4])), determinant),
              FDiv(FSub(FProd(<<Two, q[3], q[4]>>), FMul(q[2], q[5])), determinant)>>,
            HalfAnglePlusQuarterTurn(FNeg(q[2]), FSub(q[1], q[3]))))

SpherinderHyperplaneIntersecion_intersect_with(q, determinant, k, h) ==
    SpherinderHyperplaneIntersecion_ellipse(q, determinant,
        FMul(k, FAdd(FAdd(q[1], q[3]), h)), FMul(k, FSub(FAdd(q[1], q[3]), h)))

SpherinderHyperplaneIntersecion_intersect_at(q, determinant) ==
    SpherinderHyperplaneIntersecion_intersect_with(q, determinant,
        FMul(Two, FSum(<<FProd(<<q[1], q[5], q[5]>>), FProd(<<q[3], q[4], q[4]>>),
                         FNeg(FProd(<<q[2], q[4], q[5]>>)), FMul(determinant, q[6])>>)),
        FSqrt(FAdd(FMul(FSub(q[1], q[3]), FSub(q[1], q[3])), FMul(q[2], q[2]))))

SpherinderHyperplaneIntersecion_intersect_conic(q) ==
    SpherinderHyperplaneIntersecion_intersect_at(q,
        FSub(FMul(q[2], q[2]), FProd(<<FInt(4), q[1], q[3]>>)))

SpherinderHyperplaneIntersecion_intersect(self, plane) ==
    SpherinderHyperplaneIntersecion_intersect_conic(
        SpherinderHyperplaneIntersecion_conic(
            SpherinderHyperplaneIntersecion_coefficients(self.hyperplane,
                                                         self.spherinder.radius),
            plane))

(***************************************************************************)
(* orca::solver_2d                                                         *)
(***************************************************************************)
Feasible(v) == [kind |-> "Feasible", optimal_velocity |-> v]
Infeasible(v) == [kind |-> "Infeasible", optimal_velocity |-> v]
Panicked == [kind |-> "Panic"]
Continue(v) == [kind |-> "Continue", optimal_velocity |-> v]

NoBounds == [some |-> FALSE]
SomeBounds(lo, hi) == [some |-> TRUE, min_bound |-> lo, max_bound |-> hi]

RECURSIVE ClipBounds(_, _, _, _, _, _)
ClipBounds_hit(half_planes, i, j, point, direction, b, in_min, in_max, hit) ==
    IF hit.kind # "Point" THEN NoBounds
    ELSE IF ~in_min /\ ~FGt(hit.t, b.min_bound) THEN NoBounds
    ELSE IF ~in_max /\ ~FLt(hit.t, b.max_bound) THEN NoBounds
    ELSE ClipBounds(half_planes, i, j + 1, point, direction,
                    SomeBounds(IF in_min THEN b.min_bound ELSE hit.t,
                               IF in_max THEN b.max_bound ELSE hit.t))

ClipBounds_at(half_planes, i, j, point, direction, b, in_min, in_max) ==
    IF in_min /\ in_max THEN ClipBounds(half_planes, i, j + 1, point, direction, b)
    ELSE ClipBounds_hit(half_planes, i, j, point, direction, b, in_min, in_max,
            Ray2D_intersect(Ray2D_new(point, direction),
                            Ray2D_new(half_planes[j + 1].point,
                                      perp(half_planes[j + 1].normal))))

\* the inner loop over the half-planes before the i-th: none when one of them
\* empties the interval
ClipBounds(half_planes, i, j, point, direction, b) ==
    IF j >= i THEN b
    ELSE ClipBounds_at(half_planes, i, j, point, direction, b,
            HalfPlane_contains(half_planes[j + 1],
                               vadd(point, vmul(direction, b.min_bound))),
            HalfPlane_contains(half_planes[j + 1],
                               vadd(point, vmul(direction, b.max_bound))))

\* MaximumVelocityShape2D, implemented by Circle and by the ellipse
Shape2D_constrain(shape, velocity) ==
    IF shape.shape = "Circle" THEN Circle_constrain(shape, velocity)
    ELSE SpherinderHyperplanePlaneIntersection_constrain(shape, velocity)

Shape2D_intersect(shape, ray) ==
    IF shape.shape = "Circle" THEN Circle_intersect(shape, ray)
    ELSE SpherinderHyperplanePlaneIntersection_intersect(shape, ray)

BoundsOf(hit) ==
    IF hit.kind = "None" THEN NoBounds
    ELSE IF hit.kind = "Point" THEN SomeBounds(hit.t, hit.t)
    ELSE SomeBounds(hit.t_min, hit.t_max)

get_bounds_on_line(shape, point, direction) ==
    BoundsOf(Shape2D_intersect(shape, Ray2D_new(point, direction)))

Midpoint(avg) == SomeBounds(avg, avg)

\* leaves the interval as the inner loop gave it
CollapseBounds_kept(b) == b

\* the interval after the collapse of a nearly empty one (solver_2d.rs:115-119)
CollapseBounds(b) ==
    IF FLt(FAbs(FSub(b.min_bound, b.max_bound)), EPSILON)
    THEN Midpoint(FDiv(FAdd(b.min_bound, b.max_bound), Two))
    ELSE b

\* the test with >= in place of >, which also gives up on a single point
BoundsInvalid_inclusive(b) == FGe(b.min_bound, b.max_bound)

\* does the solver give up on an interval with min_bound > max_bound
BoundsInvalid(b) == FGt(b.min_bound, b.max_bound)

\* the projection on the whole line, without the clamp to [t_min, t_max]
Iterate2D_segment_unbounded(optimal_velocity, line_segment) ==
    Continue(vadd(line_segment.origin,
                  vmul(line_segment.direction,
                       dot(vsub(optimal_velocity, line_segment.origin), line_segment.direction))))

Iterate2D_segment(optimal_velocity, line_segment) ==
    IF LineSegment2D_constrain_panics(line_segment) THEN Panicked
    ELSE Continue(LineSegment2D_constrain(line_segment, optimal_velocity))

Iterate2D_with(optimal_velocity, point, direction, b) ==
    IF BoundsInvalid(b) THEN Infeasible(optimal_velocity)
    ELSE Iterate2D_segment(optimal_velocity,
            LineSegment2D_new(point, direction, b.min_bound, b.max_bound))

Iterate2D_clipped(optimal_velocity, point, direction, b) ==
    IF ~b.some THEN Infeasible(optimal_velocity)
    ELSE Iterate2D_with(optimal_velocity, point, direction, CollapseBounds(b))

Iterate2D_on(optimal_velocity, half_planes, i, point, direction, b) ==
    IF ~b.some THEN Infeasible(optimal_velocity)
    ELSE Iterate2D_clipped(optimal_velocity, point, direction,
            ClipBounds(half_planes, i, 0, point, direction, b))

Iterate2D_at(optimal_velocity, shape, half_planes, i, point, direction) ==
    Iterate2D_on(optimal_velocity, half_planes, i, point, direction,
                 get_bounds_on_line(shape, point, direction))

\* one pass of the loop body of incremental_optimization_2d, for half-plane i
Iterate2D(optimal_velocity, shape, half_planes, i) ==
    IF HalfPlane_contains(half_planes[i + 1], optimal_velocity)
    THEN Continue(optimal_velocity)
    ELSE Iterate2D_at(optimal_velocity, shape, half_planes, i,
                      half_planes[i + 1].point, perp(half_planes[i + 1].normal))

RECURSIVE Loop2D(_, _, _, _)
Loop2D_next(r, shape, half_planes, i) ==
    IF r.kind = "Continue" THEN Loop2D(r.optimal_velocity, shape, half_planes, i + 1)
    ELSE r

Loop2D(optimal_velocity, shape, half_planes, i) ==
    IF i >= Len(half_planes) THEN Feasible(optimal_velocity)
    ELSE Loop2D_next(Iterate2D(optimal_velocity, shape, half_planes, i), shape,
                     half_planes, i)

incremental_optimization_2d(preffered_velocity, maximum_velocity, half_planes) ==
    Loop2D(Shape2D_constrain(maximum_velocity, preffered_velocity), maximum_velocity,
           half_planes, 0)

(***************************************************************************)
(* orca::solver_3d                                                         *)
(***************************************************************************)
\* leaves the velocity as it is
Shape3D_constrain_unbounded(shape, velocity) == velocity

\* MaximumVelocityShape3D, implemented by Sphere and by the spherinder section
Shape3D_constrain(shape, velocity) ==
    IF shape.shape = "Sphere" THEN Sphere_constrain(shape, velocity)
    ELSE SpherinderHyperplaneIntersecion_constrain(shape, velocity)

project_on_plane(shape, plane) ==
    IF shape.shape = "Sphere" THEN Sphere_intersect_plane(shape, plane)
    ELSE SpherinderHyperplaneIntersecion_intersect(shape, plane)

\* what `if let Some(x) = option { list.push(x) }` adds to the list
Pushed(option) == IF option.some THEN <<option.value>> ELSE <<>>

\* the half-planes the planes before the i-th cut into it; a parallel plane
\* gives none and is left out
RECURSIVE HalfPlanesOn(_, _, _)
HalfPlanesOn(planes, i, j) ==
    IF j >= i THEN <<>>
    ELSE Pushed(HalfPlane_from_plane_intersection(planes[i + 1], planes[j + 1]))
         \o HalfPlanesOn(planes, i, j + 1)

\* carries the point the 2D sub-problem stopped at, not the optimum held before
Iterate3D_with_sub_optimum(optimal_velocity, plane, result) ==
    IF result.kind = "Feasible"
    THEN Continue(Plane_project_3d(plane, result.optimal_velocity))
    ELSE IF result.kind = "Panic" THEN Panicked
    ELSE Infeasible(Plane_project_3d(plane, result.optimal_velocity))

Iterate3D_with(optimal_velocity, plane, result) ==
    IF result.kind = "Feasible"
    THEN Continue(Plane_project_3d(plane, result.optimal_velocity))
    ELSE IF result.kind = "Panic" THEN Panicked
    ELSE Infeasible(optimal_velocity)

Iterate3D_on(optimal_velocity, planes, i, bounding_shape_2d) ==
    IF ~bounding_shape_2d.some THEN Infeasible(optimal_velocity)
    ELSE Iterate3D_with(optimal_velocity, planes[i + 1],
            incremental_optimization_2d(
                Plane_project_2d(planes[i + 1],
                    Plane_closest_point_and_normal(planes[i + 1], optimal_velocity)[1]),
                bounding_shape_2d.value, HalfPlanesOn(planes, i, 0)))

\* solves on the plane even when the plane already contains the optimum
Iterate3D_on_every_plane(optimal_velocity, bounding_shape, planes, i) ==
    Iterate3D_on(optimal_velocity, planes, i, project_on_plane(bounding_shape, planes[i + 1]))

\* one pass of the loop body of incremental_optimization_3d, for plane i
Iterate3D(optimal_velocity, bounding_shape, planes, i) ==
    IF Plane_contains(planes[i + 1], optimal_velocity) THEN Continue(optimal_velocity)
    ELSE Iterate3D_on(optimal_velocity, planes, i,
                      project_on_plane(bounding_shape, planes[i + 1]))

RECURSIVE Loop3D(_, _, _, _)
Loop3D_next(r, bounding_shape, planes, i) ==
    IF r.kind = "Continue" THEN Loop3D(r.optimal_velocity, bounding_shape, planes, i + 1)
    ELSE r

Loop3D(optimal_velocity, bounding_shape, planes, i) ==
    IF i >= Len(planes) THEN Feasible(optimal_velocity)
    ELSE Loop3D_next(Iterate3D(optimal_velocity, bounding_shape, planes, i),
                     bounding_shape, planes, i)

incremental_optimization_3d(preffered_velocity, bounding_shape, planes) ==
    Loop3D(Shape3D_constrain(bounding_shape, preffered_velocity), bounding_shape, planes, 0)

(***************************************************************************)
(* orca::solver_4d and orca::optimize_velocity_3d                          *)
(***************************************************************************)
RECURSIVE PlanesOn(_, _, _)
PlanesOn(hyperplanes, i, j) ==
    IF j >= i THEN <<>>
    ELSE Pushed(Plane_from_hyperplane_intersection(hyperplanes[i + 1], hyperplanes[j + 1]))
         \o PlanesOn(hyperplanes, i, j + 1)

Iterate4D_with(optimal_velocity, hyperplane, result) ==
    IF result.kind = "Feasible"
    THEN Continue(Hyperplane_project_4d(hyperplane, result.optimal_velocity))
    ELSE IF result.kind = "Panic" THEN Panicked
    ELSE Infeasible(optimal_velocity)

\* one pass of the loop body of incremental_optimization_4d, for hyperplane i;
\* the bounding shape is the Spherinder, whose intersect never fails
Iterate4D(optimal_velocity, bounding_shape, hyperplanes, i) ==
    IF Hyperplane_contains(hyperplanes[i + 1], optimal_velocity)
    THEN Continue(optimal_velocity)
    ELSE Iterate4D_with(optimal_velocity, hyperplanes[i + 1],
            incremental_optimization_3d(
                Hyperplane_project_3d(hyperplanes[i + 1],
                    Hyperplane_constrain(hyperplanes[i + 1], optimal_velocity)),
                SpherinderHyperplaneIntersecion_new(bounding_shape, hyperplanes[i + 1]),
                PlanesOn(hyperplanes, i, 0)))

RECURSIVE Loop4D(_, _, _, _)
Loop4D_next(r, bounding_shape, hyperplanes, i) ==
    IF r.kind = "Continue"
    THEN Loop4D(r.optimal_velocity, bounding_shape, hyperplanes, i + 1)
    ELSE r

Loop4D(optimal_velocity, bounding_shape, hyperplanes, i) ==
    IF i >= Len(hyperplanes) THEN Feasible(optimal_velocity)
    ELSE Loop4D_next(Iterate4D(optimal_velocity, bounding_shape, hyperplanes, i),
                     bounding_shape, hyperplanes, i)

incremental_optimization_4d(preffered_velocity, bounding_shape, hyperplanes) ==
    Loop4D(Spherinder_constrain(bounding_shape, preffered_velocity), bounding_shape,
           hyperplanes, 0)

\* the hyperplane optimize_velocity_3d lifts a plane to (lib.rs:38-41)
LiftPlane(plane) ==
    Hyperplane_new(<<plane.origin[1], plane.origin[2], plane.origin[3], Zero>>,
                   <<plane.normal[1], plane.normal[2], plane.normal[3], Frac(1, 5)>>)

\* the last plane first
RECURSIVE LiftPlanes_reversed(_)
LiftPlanes_reversed(planes) ==
    IF planes = <<>> THEN <<>>
    ELSE LiftPlanes_reversed(Tail(planes)) \o <<LiftPlane(Head(planes))>>

RECURSIVE LiftPlanes(_)
LiftPlanes(planes) ==
    IF planes = <<>> THEN <<>> ELSE <<LiftPlane(Head(planes))>> \o LiftPlanes(Tail(planes))

FallbackPreferred(preffered_velocity) ==
    <<preffered_velocity[1], preffered_velocity[2], preffered_velocity[3], FInt(-1000)>>

(***************************************************************************)
(* State.  pc is the position of the running call, args its arguments,     *)
(* loc its local variables and ret what it returned.                       *)
(***************************************************************************)
VARIABLES pc, args, loc, ret

vars == <<pc, args, loc, ret>>

NotReturned == [kind |-> "NotReturned"]

(***************************************************************************)
(* Specification Spec2D: a caller builds a list of half-planes and runs    *)
(* incremental_optimization_2d on it inside a circle, one loop pass per    *)
(* step.                                                                   *)
(***************************************************************************)
MaxHalfPlanes == 3

Preferred2D == {P2(0, 0), P2(6, 8), P2(0, -5)}

Circles2D == {Circle_new(FInt(5), P2(0, 0))}

HalfPlanes2D ==
    {HalfPlane_new(P2(3, 0), P2(1, 0)),
     HalfPlane_new(P2(-3, 0), P2(-1, 0)),
     HalfPlane_new(P2(3, 0), P2(-1, 0)),
     HalfPlane_new(P2(0, 0), P2(0, 1)),
     HalfPlane_new(P2(5, 0), P2(3, 4)),
     HalfPlane_new(P2(0, -5), P2(0, -1)),
     HalfPlane_new(P2(0, 0), P2(-3, -4))}

Init2D ==
    /\ pc = "build2d"
    /\ \E p \in Preferred2D, c \in Circles2D :
          args = [preffered_velocity |-> p, maximum_velocity |-> c, half_planes |-> <<>>]
    /\ loc = [i |-> 0, optimal_velocity |-> P2(0, 0)]
    /\ ret = NotReturned

PushHalfPlane ==
    /\ pc = "build2d"
    /\ Len(args.half_planes) < MaxHalfPlanes
    /\ \E hp \in HalfPlanes2D :
          args' = [args EXCEPT !.half_planes = Append(@, hp)]
    /\ UNCHANGED <<pc, loc, ret>>

Call2D ==
    /\ pc = "build2d"
    /\ pc' = "loop2d"
    /\ loc' = [i |-> 0,
               optimal_velocity |-> Shape2D_constrain(args.maximum_velocity,
                                                      args.preffered_velocity)]
    /\ UNCHANGED <<args, ret>>

\* the loop goes on with the next half-plane, or the call returns r
Pass2D(r) ==
    IF r.kind = "Continue"
    THEN /\ loc' = [i |-> loc.i + 1, optimal_velocity |-> r.optimal_velocity]
         /\ UNCHANGED <<pc, ret>>
    ELSE /\ pc' = "done2d"
         /\ ret' = r
         /\ UNCHANGED loc

Step2D ==
    /\ pc = "loop2d"
    /\ loc.i < Len(args.half_planes)
    /\ Pass2D(Iterate2D(loc.optimal_velocity, args.maximum_velocity,
                        args.half_planes, loc.i))
    /\ UNCHANGED args

Return2D ==
    /\ pc = "loop2d"
    /\ loc.i >= Len(args.half_planes)
    /\ pc' = "done2d"
    /\ ret' = Feasible(loc.optimal_velocity)
    /\ UNCHANGED <<args, loc>>

Next2D == PushHalfPlane \/ Call2D \/ Step2D \/ Return2D

Spec2D == Init2D /\ [][Next2D]_vars

\* the integer points of the square around the circle
GridRadius == 5

Candidates2D ==
    {P2(x, y) : x \in (-GridRadius)..GridRadius, y \in (-GridRadius)..GridRadius}

\* q is a point of the bounding circle that every half-plane of the call contains
FeasiblePoint2D(q) ==
    /\ Circle_contains(args.maximum_velocity, q)
    /\ \A k \in 1..Len(args.half_planes) : HalfPlane_contains(args.half_planes[k], q)

DistanceSquared(p, q) == length_squared(vsub(p, q))

\* C4: when incremental_optimization_2d returns Feasible{v}, no point of the
\* bounding circle that satisfies every half-plane is closer to the preferred
\* velocity than v (v is the nearest feasible point)
C4_NearestFeasiblePoint ==
    (pc = "done2d" /\ ret.kind = "Feasible") =>
        \A q \in Candidates2D :
            FeasiblePoint2D(q) =>
                FLe(DistanceSquared(ret.optimal_velocity, args.preffered_velocity),
                    DistanceSquared(q, args.preffered_velocity))

MaxPlanes == 3

Preferred3D == {P3(0, 0, 0), P3(6, 8, 0), P3(0, 0, -5)}

Spheres3D == {Sphere_new(FInt(5), P3(0, 0, 0))}

Planes3D ==
    {Plane_new(P3(3, 0, 0), P3(1, 0, 0)),
     Plane_new(P3(-3, 0, 0), P3(-1, 0, 0)),
     Plane_new(P3(3, 0, 0), P3(-1, 0, 0)),
     Plane_new(P3(0, 4, 0), P3(0, 1, 0)),
     Plane_new(P3(0, 0, 0), P3(0, 0, 1)),
     Plane_new(P3(0, 0, 0), P3(0, 0, -1))}

Init3D ==
    /\ pc = "build3d"
    /\ \E p \in Preferred3D, s \in Spheres3D :
          args = [preffered_velocity |-> p, bounding_shape |-> s, planes |-> <<>>]
    /\ loc = [i |-> 0, optimal_velocity |-> P3(0, 0, 0)]
    /\ ret = NotReturned

PushPlane ==
    /\ pc = "build3d"
    /\ Len(args.planes) < MaxPlanes
    /\ \E plane \in Planes3D : args' = [args EXCEPT !.planes = Append(@, plane)]
    /\ UNCHANGED <<pc, loc, ret>>

Call3D ==
    /\ pc = "build3d"
    /\ pc' = "loop3d"
    /\ loc' = [i |-> 0,
               optimal_velocity |-> Shape3D_constrain(args.bounding_shape,
                                                      args.preffered_velocity)]
    /\ UNCHANGED <<args, ret>>

\* the loop goes on with the next plane, or the call returns r
Pass3D(r) ==
    IF r.kind = "Continue"
    THEN /\ loc' = [i |-> loc.i + 1, optimal_velocity |-> r.optimal_velocity]
         /\ UNCHANGED <<pc, ret>>
    ELSE /\ pc' = "done3d"
         /\ ret' = r
         /\ UNCHANGED loc

Step3D ==
    /\ pc = "loop3d"
    /\ loc.i < Len(args.planes)
    /\ Pass3D(Iterate3D(loc.optimal_velocity, args.bounding_shape, args.planes, loc.i))
    /\ UNCHANGED args

Return3D ==
    /\ pc = "loop3d"
    /\ loc.i >= Len(args.planes)
    /\ pc' = "done3d"
    /\ ret' = Feasible(loc.optimal_velocity)
    /\ UNCHANGED <<args, loc>>

Next3D == PushPlane \/ Call3D \/ Step3D \/ Return3D

Spec3D == Init3D /\ [][Next3D]_vars

\* C2: when incremental_optimization_3d returns Feasible{v}, every plane of the
\* list contains v within the tolerance, parallel planes included
C2_FeasibleSatisfiesEveryPlane ==
    (pc = "done3d" /\ ret.kind = "Feasible") =>
        \A k \in 1..Len(args.planes) : Plane_contains(args.planes[k], ret.optimal_velocity)

(***************************************************************************)
(* Specification SpecOptimize: a caller builds a list of ORCA planes and   *)
(* runs optimize_velocity_3d on it: the loop of incremental_optimization_3d*)
(* and, when that is infeasible, the loop of incremental_optimization_4d   *)
(* over the lifted planes.                                                 *)
(***************************************************************************)
PreferredVelocities == {P3(0, 0, 0), P3(0, 5, 0), P3(0, -2, 0)}

MaximumVelocities == {Zero, FInt(1), FInt(5)}

OrcaPlanes ==
    {Plane_new(P3(0, -4, 0), P3(0, 1, 0)),
     Plane_new(P3(0, 3, 0), P3(0, -1, 0)),
     Plane_new(P3(0, 0, 0), P3(0, 1, 0)),
     Plane_new(P3(0, -3, 0), P3(0, -1, 0)),
     Plane_new(P3(0, 4, 0), P3(0, 1, 0)),
     Plane_new(P3(0, 0, 0), P3(0, 0, 0))}

Returned(exit, velocity) == [kind |-> "Returned", exit |-> exit, velocity |-> velocity]

InitOptimize ==
    /\ pc = "build"
    /\ \E p \in PreferredVelocities, m \in MaximumVelocities :
          args = [preffered_velocity |-> p, maximum_velocity |-> m, planes |-> <<>>]
    /\ loc = [i |-> 0, optimal_velocity |-> P3(0, 0, 0), hyperplanes |-> <<>>]
    /\ ret = NotReturned

PushOrcaPlane ==
    /\ pc = "build"
    /\ Len(args.planes) < MaxPlanes
    /\ \E plane \in OrcaPlanes : args' = [args EXCEPT !.planes = Append(@, plane)]
    /\ UNCHANGED <<pc, loc, ret>>

CallOptimize ==
    /\ pc = "build"
    /\ pc' = "solve3d"
    /\ loc' = [i |-> 0,
               optimal_velocity |->
                   Shape3D_constrain(Sphere_new(args.maximum_velocity, P3(0, 0, 0)),
                                     args.preffered_velocity),
               hyperplanes |-> <<>>]
    /\ UNCHANGED <<args, ret>>

\* the 3D loop goes on, or its Infeasible result starts the 4D loop over the
\* lifted planes (lib.rs:34-53)
PassOptimize3D(r) ==
    IF r.kind = "Continue"
    THEN /\ loc' = [loc EXCEPT !.i = loc.i + 1, !.optimal_velocity = r.optimal_velocity]
         /\ UNCHANGED <<pc, ret>>
    ELSE IF r.kind = "Infeasible"
    THEN /\ pc' = "solve4d"
         /\ loc' = [i |-> 0,
                    optimal_velocity |->
                        Spherinder_constrain(
                            Spherinder_new(P4(0, 0, 0, 0), args.maximum_velocity),
                            FallbackPreferred(args.preffered_velocity)),
                    hyperplanes |-> LiftPlanes(args.planes)]
         /\ UNCHANGED ret
    ELSE /\ pc' = "panicked"
         /\ UNCHANGED <<loc, ret>>

StepOptimize3D ==
    /\ pc = "solve3d"
    /\ loc.i < Len(args.planes)
    /\ PassOptimize3D(Iterate3D(loc.optimal_velocity,
                                Sphere_new(args.maximum_velocity, P3(0, 0, 0)),
                                args.planes, loc.i))
    /\ UNCHANGED args

ReturnFeasible3D ==
    /\ pc = "solve3d"
    /\ loc.i >= Len(args.planes)
    /\ pc' = "returned"
    /\ ret' = Returned("3D Feasible", loc.optimal_velocity)
    /\ UNCHANGED <<args, loc>>

PassOptimize4D(r) ==
    IF r.kind = "Continue"
    THEN /\ loc' = [loc EXCEPT !.i = loc.i + 1, !.optimal_velocity = r.optimal_velocity]
         /\ UNCHANGED <<pc, ret>>
    ELSE IF r.kind = "Infeasible"
    THEN /\ pc' = "returned"
         /\ ret' = Returned("4D Infeasible", xyz(r.optimal_velocity))
         /\ UNCHANGED loc
    ELSE /\ pc' = "panicked"
         /\ UNCHANGED <<loc, ret>>

StepOptimize4D ==
    /\ pc = "solve4d"
    /\ loc.i < Len(loc.hyperplanes)
    /\ PassOptimize4D(Iterate4D(loc.optimal_velocity,
                                Spherinder_new(P4(0, 0, 0, 0), args.maximum_velocity),
                                loc.hyperplanes, loc.i))
    /\ UNCHANGED args

ReturnFeasible4D ==
    /\ pc = "solve4d"
    /\ loc.i >= Len(loc.hyperplanes)
    /\ pc' = "returned"
    /\ ret' = Returned("4D Feasible", xyz(loc.optimal_velocity))
    /\ UNCHANGED <<args, loc>>

RunOptimize == StepOptimize3D \/ ReturnFeasible3D \/ StepOptimize4D \/ ReturnFeasible4D

NextOptimize == PushOrcaPlane \/ CallOptimize \/ RunOptimize

SpecOptimize == InitOptimize /\ [][NextOptimize]_vars

\* C1: a call of optimize_velocity_3d, whatever the planes, the preferred
\* velocity and the maximum speed, never panics, and what it returns at any
\* of its three exits is a velocity of three finite components (the loops run
\* once per plane, so the call ends when no pass panics)
C1_OptimizeReturnsVelocity ==
    /\ pc # "panicked"
    /\ pc = "returned" => VecFinite(ret.velocity)

PlaneFinite(plane) == VecFinite(plane.origin) /\ VecFinite(plane.normal)

\* C3: for a list of finite planes the 4D fallback of optimize_velocity_3d
\* ends Feasible, never Infeasible
C3_FallbackNeverInfeasible ==
    (pc = "returned" /\ \A k \in 1..Len(args.planes) : PlaneFinite(args.planes[k])) =>
        ret.exit # "4D Infeasible"


(***************************************************************************)
(* geometry: Aabb, Collider, Cone and LineSegment2D::closest_point_and_normal *)
(***************************************************************************)
Aabb_new(center, half_sizes) == [shape |-> "Aabb", center |-> center, half_sizes |-> half_sizes]

Aabb_within(pt, min, max) == \A k \in 1..3 : FGe(pt[k], min[k]) /\ FLe(pt[k], max[k])

Aabb_contains(b, pt) == Aabb_within(pt, vsub(b.center, b.half_sizes), vadd(b.center, b.half_sizes))

\* only the top, bottom, front and back faces are compared
Aabb_closest_face(pt, min, max, top, bottom, front, back) ==
    IF FLt(FMin(top, bottom), FMin(front, back))
    THEN IF FLt(top, bottom) THEN <<<<pt[1], max[2], pt[3]>>, Vec3_Y>>
         ELSE <<<<pt[1], min[2], pt[3]>>, vneg(Vec3_Y)>>
    ELSE IF FLt(front, back) THEN <<<<pt[1], pt[2], max[3]>>, Vec3_Z>>
    ELSE <<<<pt[1], pt[2], min[3]>>, vneg(Vec3_Z)>>

Aabb_closest_point_and_normal_at(pt, min, max) ==
    Aabb_closest_face(pt, min, max,
                      FAbs(FSub(max[2], pt[2])), FAbs(FSub(min[2], pt[2])),
                      FAbs(FSub(max[3], pt[3])), FAbs(FSub(min[3], pt[3])))

Aabb_closest_point_and_normal(b, pt) ==
    Aabb_closest_point_and_normal_at(pt, vsub(b.center, b.half_sizes),
                                     vadd(b.center, b.half_sizes))

LineSegment2D_closest_point_and_normal_at(seg, relative_pt, projected_pt) ==
    <<vadd(seg.origin, projected_pt),
      IF FLt(dot(vsub(relative_pt, projected_pt), perp(seg.direction)), Zero)
      THEN vneg(perp(seg.direction))
      ELSE perp(seg.direction)>>

\* f32::clamp panics unless t_min <= t_max
LineSegment2D_closest_point_and_normal(seg, pt) ==
    IF ~FClampOk(seg.t_min, seg.t_max) THEN Panicked
    ELSE LineSegment2D_closest_point_and_normal_at(seg, vsub(pt, seg.origin),
            vmul(seg.direction,
                 FClamp(dot(vsub(pt, seg.origin), seg.direction), seg.t_min, seg.t_max)))

Cone_infinite(vertex, direction, radius) ==
    [vertex |-> vertex, direction |-> normalize(direction),
     radius |-> FDiv(radius, length(direction)),
     min_height |-> Some(Zero), max_height |-> None]

Cone_edge_length(cone, height, unbounded) ==
    IF height.some
    THEN FSqrt(FAdd(FMul(height.value, height.value),
                    FMul(FMul(cone.radius, height.value), FMul(cone.radius, height.value))))
    ELSE unbounded

Cone_edge(cone, slope) ==
    LineSegment2D_new(<<Zero, Zero>>, normalize(<<One, slope>>),
                      Cone_edge_length(cone, cone.min_height, Zero),
                      Cone_edge_length(cone, cone.max_height, PInf))

Cone_closer(pt, closest_1, closest_2) ==
    IF closest_1 = Panicked \/ closest_2 = Panicked THEN Panicked
    ELSE IF FLt(length_squared(vsub(closest_1[1], pt)), length_squared(vsub(closest_2[1], pt)))
    THEN closest_1
    ELSE closest_2

Cone_closest_on_edges(cone, pt) ==
    Cone_closer(pt, LineSegment2D_closest_point_and_normal(Cone_edge(cone, cone.radius), pt),
                LineSegment2D_closest_point_and_normal(Cone_edge(cone, FNeg(cone.radius)), pt))

Cone_perpendicular_direction(cone, rejected, y_component) ==
    IF FLt(FAbs(y_component), EPSILON)
    THEN normalize(cross(cone.direction, Plane_basis(cone.direction)))
    ELSE normalize(rejected)

Cone_surface_point(pt, point, normal) ==
    IF FLt(dot(normal, vsub(pt, point)), Zero) THEN <<point, vneg(normal)>> ELSE <<point, normal>>

Cone_closest_point_and_normal_from(cone, pt, closest, perpendicular_direction) ==
    IF closest = Panicked THEN Panicked
    ELSE IF FLt(length_squared(closest[1]), EPSILON)
    THEN <<cone.vertex, normalize(vsub(pt, cone.vertex))>>
    ELSE Cone_surface_point(pt,
            vadd(vadd(cone.vertex, vmul(cone.direction, closest[1][1])),
                 vmul(perpendicular_direction, closest[1][2])),
            normalize(vadd(vmul(cone.direction, closest[2][1]),
                           vmul(perpendicular_direction, closest[2][2]))))

Cone_closest_point_and_normal_on(cone, pt, rejected, x_component, y_component) ==
    Cone_closest_point_and_normal_from(cone, pt,
        Cone_closest_on_edges(cone, <<x_component, y_component>>),
        Cone_perpendicular_direction(cone, rejected, y_component))

Cone_y_component(y_squared) == IF FLt(y_squared, EPSILON) THEN Zero ELSE FSqrt(y_squared)

Cone_closest_point_and_normal_with(cone, pt, rejected, x_component) ==
    Cone_closest_point_and_normal_on(cone, pt, rejected, x_component,
                                     Cone_y_component(length_squared(rejected)))

Cone_closest_point_and_normal_at(cone, pt, relative_pt, x_component) ==
    Cone_closest_point_and_normal_with(cone, pt,
        vsub(relative_pt, vmul(cone.direction, x_component)), x_component)

Cone_closest_point_and_normal(cone, pt) ==
    Cone_closest_point_and_normal_at(cone, pt, vsub(pt, cone.vertex),
                                     dot(cone.direction, vsub(pt, cone.vertex)))

Collider_new_sphere(radius) == Sphere_new(radius, P3(0, 0, 0))

Collider_new_aabb(center, half_sizes) == Aabb_new(center, half_sizes)

Splat(r) == <<r, r, r>>

Collider_minkowski_sum(c, other) ==
    IF c.shape = "Sphere" /\ other.shape = "Sphere"
    THEN Sphere_new(FAdd(c.radius, other.radius), vsub(c.origin, other.origin))
    ELSE IF c.shape = "Sphere"
    THEN Aabb_new(vsub(c.origin, other.center), vadd(other.half_sizes, Splat(c.radius)))
    ELSE IF other.shape = "Sphere"
    THEN Aabb_new(vsub(c.center, other.origin), vadd(c.half_sizes, Splat(other.radius)))
    ELSE Aabb_new(vsub(c.center, other.center), vadd(c.half_sizes, other.half_sizes))

Collider_scale(c, scale) ==
    IF c.shape = "Sphere" THEN Sphere_new(FMul(c.radius, scale), c.origin)
    ELSE Aabb_new(c.center, vmul(c.half_sizes, scale))

\* the Aabb arm is todo!()
Collider_get_secant_plane(c, point) ==
    IF c.shape = "Sphere" THEN Sphere_get_secant_plane(c, point) ELSE Panicked

\* the Aabb arm is todo!()
Collider_extend_cone(c, vertex) ==
    IF c.shape = "Sphere" THEN Cone_infinite(vertex, vneg(vertex), c.radius) ELSE Panicked

Collider_bounding_sphere(c) ==
    IF c.shape = "Sphere" THEN c ELSE Sphere_new(length(c.half_sizes), c.center)

Collider_contains(c, pt) ==
    IF c.shape = "Sphere" THEN Sphere_contains(c, pt) ELSE Aabb_contains(c, pt)

Collider_closest_point_and_normal(c, pt) ==
    IF c.shape = "Sphere" THEN Sphere_closest_point_and_normal(c, pt)
    ELSE Aabb_closest_point_and_normal(c, pt)

(***************************************************************************)
(* orca: Agent3D and VelocityObstacle3D                                    *)
(***************************************************************************)
Agent3D_new(position, velocity, shape) ==
    [position |-> position, velocity |-> velocity, shape |-> shape,
     responsibility |-> Frac(1, 2)]

VelocityObstacle3D_new_with(agent_self, agent_other, time_horizon, shape) ==
    [relative_position |-> vsub(agent_other.position, agent_self.position),
     relative_velocity |-> vsub(agent_self.velocity, agent_other.velocity),
     shape |-> shape,
     cutoff_shape |-> Collider_scale(shape, FDiv(One, time_horizon)),
     agent_velocity |-> agent_self.velocity,
     time_horizon |-> time_horizon,
     responsibility |-> FDiv(agent_self.responsibility,
                             FAdd(agent_self.responsibility, agent_other.responsibility))]

VelocityObstacle3D_new(agent_self, agent_other, time_horizon) ==
    VelocityObstacle3D_new_with(agent_self, agent_other, time_horizon,
                                Collider_minkowski_sum(agent_self.shape, agent_other.shape))

OrcaPlane(plane) == [kind |-> "Plane", plane |-> plane]

\* Plane::new(agent_velocity + responsibility * u, normal), u being relative to
\* the relative velocity
VelocityObstacle3D_plane(vo, closest, offset) ==
    IF closest = Panicked THEN Panicked
    ELSE OrcaPlane(Plane_new(
            vadd(vo.agent_velocity,
                 vmul(vsub(vadd(closest[1], offset), vo.relative_velocity),
                      vo.responsibility)),
            closest[2]))

VelocityObstacle3D_collision(vo, time_step) ==
    VelocityObstacle3D_plane(vo,
        Collider_closest_point_and_normal(
            Collider_scale(vo.shape, FDiv(One, time_step)),
            vsub(vo.relative_velocity, vmul(vo.relative_position, FDiv(One, time_step)))),
        vmul(vo.relative_position, FDiv(One, time_step)))

VelocityObstacle3D_on_cutoff(vo, closest) ==
    VelocityObstacle3D_plane(vo, closest, vmul(vo.relative_position, FDiv(One, vo.time_horizon)))

VelocityObstacle3D_on_cone(vo, cone) ==
    IF cone = Panicked THEN Panicked
    ELSE VelocityObstacle3D_plane(vo,
            Cone_closest_point_and_normal(cone,
                vsub(vo.relative_velocity, vo.relative_position)),
            vo.relative_position)

VelocityObstacle3D_avoid(vo, secant_plane, closest) ==
    IF secant_plane = Panicked THEN Panicked
    ELSE IF Plane_contains(secant_plane, closest[1])
    THEN VelocityObstacle3D_on_cutoff(vo, closest)
    ELSE VelocityObstacle3D_on_cone(vo,
            Collider_extend_cone(vo.shape, vneg(vo.relative_position)))

VelocityObstacle3D_orca_plane(vo, time_step) ==
    IF Collider_contains(vo.shape, vo.relative_position)
    THEN VelocityObstacle3D_collision(vo, time_step)
    ELSE VelocityObstacle3D_avoid(vo,
            Collider_get_secant_plane(vo.cutoff_shape,
                vsub(vo.relative_position,
                     vmul(vo.relative_position, FDiv(One, vo.time_horizon)))),
            Collider_closest_point_and_normal(vo.cutoff_shape,
                vsub(vo.relative_velocity,
                     vmul(vo.relative_position, FDiv(One, vo.time_horizon)))))

(***************************************************************************)
(* orca: AccelerationVelocityObstacle3D.  The boundary points are computed *)
(* with exp(), which the numbers of this model do not hold: the model      *)
(* keeps the control flow of orca_plane and takes the number of boundary   *)
(* segments that survive AVOBoundary::new on each side as an input between *)
(* 0 and discrete_steps.  The coordinates of the plane are not modelled.   *)
(***************************************************************************)
AccelerationVelocityObstacle3D_new(agent_self, agent_other, time_horizon, acc_control_param, discrete_steps) ==
    [relative_position |-> vsub(agent_self.position, agent_other.position),
     relative_velocity |-> vsub(agent_self.velocity, agent_other.velocity),
     shape |-> Collider_minkowski_sum(agent_self.shape, agent_other.shape),
     agent_velocity |-> agent_self.velocity,
     time_horizon |-> time_horizon,
     responsibility |-> FDiv(agent_self.responsibility,
                             FAdd(agent_self.responsibility, agent_other.responsibility)),
     acc_control_param |-> acc_control_param,
     discrete_steps |-> discrete_steps]

\* the left segments, the closing arc or segment when both sides have a last
\* segment, and the right segments
AVOBoundary_len(left_boundary, right_boundary) ==
    left_boundary + (IF left_boundary > 0 /\ right_boundary > 0 THEN 1 ELSE 0) + right_boundary

SomePlane == [kind |-> "Plane"]
NoPlane == [kind |-> "None"]

AccelerationVelocityObstacle3D_colliding(avo) ==
    Sphere_contains(Sphere_new(Collider_bounding_sphere(avo.shape).radius, P3(0, 0, 0)),
                    avo.relative_position)

\* orca_plane without the branch for a relative velocity of zero
AccelerationVelocityObstacle3D_orca_plane_moving(avo, left_boundary, right_boundary) ==
    IF AccelerationVelocityObstacle3D_colliding(avo) THEN SomePlane
    ELSE IF AVOBoundary_len(left_boundary, right_boundary) = 0 THEN NoPlane
    ELSE SomePlane

AccelerationVelocityObstacle3D_orca_plane(avo, left_boundary, right_boundary) ==
    IF AccelerationVelocityObstacle3D_colliding(avo) THEN SomePlane
    ELSE IF FLt(length_squared(avo.relative_velocity), EPSILON) THEN SomePlane
    ELSE IF AVOBoundary_len(left_boundary, right_boundary) = 0 THEN NoPlane
    ELSE SomePlane

(***************************************************************************)
(* orca: FormationVelocityObstacle3D.  Yaw, pitch and roll are counted in  *)
(* quarter turns, where the rotation matrix has entries -1, 0 and 1: yaw   *)
(* sample k of n is -2 + 4k/n quarter turns, pitch sample j of m is        *)
(* -1 + 2j/m.  MeshKey keeps the order in which the triangles of one sample *)
(* are pushed; construct_vo_mesh gives the triangles of the whole mesh as  *)
(* a set, and of the closest triangle orca_plane keeps whether there is    *)
(* one.                                                                    *)
(***************************************************************************)
FormationVelocityObstacle3D_new(formation, agent_other, time_horizon) ==
    [relative_position |-> vsub(agent_other.position, formation.position),
     obstacle_velocity |-> agent_other.velocity,
     formation_collider |-> formation.shape,
     obstacle_collider |-> agent_other.shape,
     formation_velocity |-> formation.velocity,
     time_horizon |-> time_horizon]

MIN_T == Frac(1, 1000)

AabbOf(collider) ==
    IF collider.shape = "Sphere" THEN Aabb_new(collider.origin, Splat(collider.radius))
    ELSE collider

FormationVelocityObstacle3D_collider_shape(fvo) ==
    AabbOf(Collider_minkowski_sum(fvo.obstacle_collider, fvo.formation_collider))

QuarterCosOf(r) == IF r = 0 THEN 1 ELSE IF r = 2 THEN -1 ELSE 0
QuarterCos(q) == QuarterCosOf(q % 4)
QuarterSin(q) == QuarterCosOf((q + 3) % 4)

YawOf(yaw_step, number_of_yaw_samples) == (4 * yaw_step) \div number_of_yaw_samples - 2
PitchOf(pitch_step, number_of_pitch_samples) == (2 * pitch_step) \div number_of_pitch_samples - 1

\* Mat4::from_euler(EulerRot::YXZ, yaw, pitch, roll) applied to Z, Y and X
Front(yaw, pitch, roll) ==
    P3(QuarterSin(yaw) * QuarterCos(pitch), -QuarterSin(pitch), QuarterCos(yaw) * QuarterCos(pitch))

Top(yaw, pitch, roll) ==
    P3(QuarterSin(yaw) * QuarterSin(pitch) * QuarterCos(roll) - QuarterCos(yaw) * QuarterSin(roll),
       QuarterCos(pitch) * QuarterCos(roll),
       QuarterCos(yaw) * QuarterSin(pitch) * QuarterCos(roll) + QuarterSin(yaw) * QuarterSin(roll))

Left(yaw, pitch, roll) ==
    P3(QuarterCos(yaw) * QuarterCos(roll) + QuarterSin(yaw) * QuarterSin(pitch) * QuarterSin(roll),
       QuarterCos(pitch) * QuarterSin(roll),
       QuarterCos(yaw) * QuarterSin(pitch) * QuarterSin(roll) - QuarterSin(yaw) * QuarterCos(roll))

\* the times at which the obstacle is between the two sides of the collider
\* along one axis; None where the code continues with the next sample
SlabTimes(position_dot, velocity_dot, half_size, time_horizon) ==
    IF FLt(FAbs(velocity_dot), EPSILON) /\ FLe(FAbs(position_dot), half_size)
    THEN Some(<<Zero, time_horizon>>)
    ELSE IF FLt(FAbs(velocity_dot), EPSILON) THEN None
    ELSE IF FGt(velocity_dot, Zero)
    THEN Some(<<FDiv(FNeg(FAdd(position_dot, half_size)), velocity_dot),
                FDiv(FNeg(FSub(position_dot, half_size)), velocity_dot)>>)
    ELSE Some(<<FDiv(FNeg(FSub(position_dot, half_size)), velocity_dot),
                FDiv(FNeg(FAdd(position_dot, half_size)), velocity_dot)>>)

SampleSpan(l1_0, l1_1, l2_0, l2_1) ==
    IF FLt(l1_0, l2_0)
    THEN IF FGt(FAdd(l1_0, l1_1), FAdd(l2_0, l2_1)) THEN <<l1_0, FAdd(l1_0, l1_1)>>
         ELSE <<l1_0, FAdd(l1_0, l2_1)>>
    ELSE IF FGt(FAdd(l1_0, l1_1), FAdd(l2_0, l2_1)) THEN <<l2_0, FAdd(l2_0, l1_1)>>
    ELSE <<l2_0, FAdd(l2_0, l2_1)>>

SampleRay(span, front) ==
    IF FLt(span[2], Zero) THEN None
    ELSE Some(<<vmul(front, FClamp(span[1], Zero, FInt(10000))), vmul(front, FInt(10000))>>)

SampleBetween(velocity_dot, position_dot, half_size, min_t, max_t, front) ==
    IF FGt(min_t, max_t) \/ FLt(FAbs(FSub(min_t, max_t)), EPSILON) THEN None
    ELSE SampleRay(SampleSpan(FAdd(velocity_dot, FDiv(FSub(position_dot, half_size), min_t)),
                              FDiv(FMul(Two, half_size), min_t),
                              FAdd(velocity_dot, FDiv(FAdd(position_dot, half_size), max_t)),
                              FDiv(FMul(Two, half_size), max_t)),
                   front)

SampleSides(fvo, half_sizes, y_side, x_side, front) ==
    IF ~y_side.some \/ ~x_side.some THEN None
    ELSE SampleBetween(dot(front, fvo.obstacle_velocity), dot(fvo.relative_position, front),
                       half_sizes[3],
                       FClamp(FMax(y_side.value[1], x_side.value[1]),
                              MIN_T, FMax(fvo.time_horizon, MIN_T)),
                       FClamp(FMin(y_side.value[2], x_side.value[2]),
                              MIN_T, FMax(fvo.time_horizon, MIN_T)),
                       front)

SampleFrame(fvo, half_sizes, front, top, left) ==
    SampleSides(fvo, half_sizes,
                SlabTimes(dot(fvo.relative_position, top), dot(fvo.obstacle_velocity, top),
                          half_sizes[2], fvo.time_horizon),
                SlabTimes(dot(fvo.relative_position, left), dot(fvo.obstacle_velocity, left),
                          half_sizes[1], fvo.time_horizon),
                front)

SampleAt(fvo, half_sizes, yaw, pitch, roll) ==
    SampleFrame(fvo, half_sizes, Front(yaw, pitch, roll), Top(yaw, pitch, roll),
                Left(yaw, pitch, roll))

\* the map from (yaw_step, pitch_step) to the (start, end) of the sample ray
FormationVelocityObstacle3D_sample_points(fvo, number_of_yaw_samples, number_of_pitch_samples, roll) ==
    [key \in (0..number_of_yaw_samples) \X (0..number_of_pitch_samples) |->
        SampleAt(fvo, FormationVelocityObstacle3D_collider_shape(fvo).half_sizes,
                 YawOf(key[1], number_of_yaw_samples),
                 PitchOf(key[2], number_of_pitch_samples), roll)]

\* the match on (top_neighbor, right_neighbor, top_right_neighbor)
MeshCorner(start, end, top, right, top_right) ==
    IF ~top.some /\ ~right.some THEN <<>>
    ELSE IF ~top.some /\ ~top_right.some
    THEN << <<start, right.value[1], end>>, <<right.value[1], right.value[2], end>> >>
    ELSE IF ~top.some
    THEN << <<start, right.value[1], top_right.value[1]>>,
          <<end, top_right.value[2], right.value[2]>>,
          <<start, top_right.value[1], end>>,
          <<top_right.value[1], top_right.value[2], end>> >>
    ELSE IF ~right.some /\ ~top_right.some
    THEN << <<start, end, top.value[1]>>, <<top.value[1], end, top.value[2]>> >>
    ELSE IF ~right.some
    THEN << <<start, top_right.value[1], top.value[1]>>,
          <<end, top.value[2], top_right.value[2]>>,
          <<start, end, top_right.value[1]>>,
          <<top_right.value[1], end, top_right.value[2]>> >>
    ELSE IF ~top_right.some
    THEN << <<start, right.value[1], top.value[1]>>,
          <<end, top.value[2], right.value[2]>>,
          <<top.value[1], right.value[1], right.value[2]>>,
          <<top.value[1], right.value[2], top.value[2]>> >>
    ELSE << <<start, right.value[1], top.value[1]>>,
          <<end, top.value[2], right.value[2]>>,
          <<top.value[1], right.value[1], top_right.value[1]>>,
          <<top.value[2], top_right.value[2], right.value[2]>> >>

\* the two additions for a sample with no left neighbour
MeshLeft(start, end, top, left, left_top) ==
    (IF ~left.some /\ ~left_top.some /\ top.some
     THEN << <<start, top.value[1], end>>, <<top.value[1], top.value[2], end>> >>
     ELSE <<>>)
    \o
    (IF ~left.some /\ top.some /\ left_top.some
     THEN << <<start, top.value[1], left_top.value[1]>>,
           <<end, left_top.value[2], top.value[2]>>,
           <<start, left_top.value[1], end>>,
           <<left_top.value[1], left_top.value[2], end>> >>
     ELSE <<>>)

MeshBottom(start, end, right, bottom, bottom_right) ==
    IF ~bottom.some /\ ~bottom_right.some /\ right.some
    THEN << <<start, end, right.value[1]>>, <<right.value[1], end, right.value[2]>> >>
    ELSE <<>>

MeshAt(points, sample, yaw_step, pitch_step, right_step, left_step, top_step, bottom_step) ==
    MeshCorner(sample[1], sample[2], points[<<yaw_step, top_step>>],
               points[<<right_step, pitch_step>>], points[<<right_step, top_step>>])
    \o MeshLeft(sample[1], sample[2], points[<<yaw_step, top_step>>],
                  points[<<left_step, pitch_step>>], points[<<left_step, top_step>>])
    \o MeshBottom(sample[1], sample[2], points[<<right_step, pitch_step>>],
                    points[<<yaw_step, bottom_step>>], points[<<right_step, bottom_step>>])

\* the triangles pushed while the sample at key is processed
MeshKey(points, key, number_of_yaw_samples, number_of_pitch_samples) ==
    MeshAt(points, points[key].value, key[1], key[2],
           (key[1] + 1) % number_of_yaw_samples,
           (key[1] + number_of_yaw_samples - 1) % number_of_yaw_samples,
           (key[2] + 1) % number_of_pitch_samples,
           (key[2] + number_of_pitch_samples - 1) % number_of_pitch_samples)

Range(s) == {s[i] : i \in 1..Len(s)}

\* the triangles of the whole mesh, in no order
MeshOf(points, number_of_yaw_samples, number_of_pitch_samples) ==
    UNION {Range(MeshKey(points, key, number_of_yaw_samples, number_of_pitch_samples)) :
           key \in {k \in DOMAIN points : points[k].some}}

FormationVelocityObstacle3D_construct_vo_mesh(fvo, number_of_yaw_samples, number_of_pitch_samples, roll) ==
    MeshOf(FormationVelocityObstacle3D_sample_points(fvo, number_of_yaw_samples,
                                                     number_of_pitch_samples, roll),
           number_of_yaw_samples, number_of_pitch_samples)

\* Plane::from_points normalises (b - a) x (c - a): a triangle of collinear
\* points has a NaN plane and a NaN distance, which is never the minimum
Triangle_distance_is_finite(triangle) ==
    cross(vsub(triangle[2], triangle[1]), vsub(triangle[3], triangle[1])) # P3(0, 0, 0)

FormationVelocityObstacle3D_closest(triangles) ==
    IF \E triangle \in triangles : Triangle_distance_is_finite(triangle) THEN SomePlane
    ELSE NoPlane

\* with a sample count of 0 the angles are NaN, the NaN sample is kept, and
\* the mesh construction takes a remainder by zero
FormationVelocityObstacle3D_orca_plane_at(fvo, moved_shape, number_of_yaw_samples, number_of_pitch_samples, roll) ==
    IF Aabb_contains(moved_shape, P3(0, 0, 0))
    THEN OrcaPlane(Plane_new(Aabb_closest_point_and_normal(moved_shape, P3(0, 0, 0))[1],
                             Aabb_closest_point_and_normal(moved_shape, P3(0, 0, 0))[2]))
    ELSE IF number_of_yaw_samples = 0 \/ number_of_pitch_samples = 0 THEN Panicked
    ELSE FormationVelocityObstacle3D_closest(
            FormationVelocityObstacle3D_construct_vo_mesh(fvo, number_of_yaw_samples,
                                                          number_of_pitch_samples, roll))

FormationVelocityObstacle3D_moved_shape(fvo) ==
    Aabb_new(fvo.relative_position, FormationVelocityObstacle3D_collider_shape(fvo).half_sizes)

FormationVelocityObstacle3D_orca_plane(fvo, number_of_yaw_samples, number_of_pitch_samples, roll) ==
    FormationVelocityObstacle3D_orca_plane_at(fvo, FormationVelocityObstacle3D_moved_shape(fvo),
                                              number_of_yaw_samples, number_of_pitch_samples,
                                              roll)

(***************************************************************************)
(* SpecVelocityObstacle: a pair of agents, the velocity obstacle of each   *)
(* kind built from the pair, and its orca_plane.                           *)
(***************************************************************************)
MaxDiscreteSteps == 1

Shapes ==
    {Collider_new_sphere(Zero), Collider_new_sphere(FInt(6)),
     Collider_new_aabb(P3(0, 0, 0), P3(9, 9, 1))}

OtherPositions == {P3(0, 0, 0), P3(0, 0, 8)}

\* <<velocity of agent_self, velocity of agent_other>>
VelocityPairs ==
    {<<P3(0, 0, 0), P3(0, 0, 0)>>, <<P3(3, 0, 4), P3(3, 0, 4)>>, <<P3(3, 0, 4), P3(0, 0, 0)>>,
     <<P3(0, 0, 4), P3(0, 0, 0)>>, <<P3(0, 0, 12), P3(0, 0, 0)>>, <<P3(0, 0, 3), P3(0, 0, 0)>>}

Responsibilities == {Zero, Frac(1, 2)}

TimeHorizons == {One, Two}

TimeSteps == {One}

AccControlParams == {One}

YawSamples == {0, 4}

PitchSamples == {0, 2}

Rolls == {0, 1}

\* responsibility is a public field: Agent3D::new sets 0.5, the caller may assign it
AgentWith(position, velocity, shape, responsibility) ==
    [Agent3D_new(position, velocity, shape) EXCEPT !.responsibility = responsibility]

InitVelocityObstacle ==
    /\ pc = "agents"
    /\ \E position \in OtherPositions, velocities \in VelocityPairs,
          shape_self \in Shapes, shape_other \in Shapes,
          responsibility_self \in Responsibilities, responsibility_other \in Responsibilities,
          time_horizon \in TimeHorizons, time_step \in TimeSteps :
          args = [agent_self |-> AgentWith(P3(0, 0, 0), velocities[1], shape_self,
                                           responsibility_self),
                  agent_other |-> AgentWith(position, velocities[2], shape_other,
                                            responsibility_other),
                  time_horizon |-> time_horizon,
                  time_step |-> time_step]
    /\ loc = NotReturned
    /\ ret = NotReturned

NewVelocityObstacle ==
    /\ pc = "agents"
    /\ pc' = "vo_new"
    /\ loc' = [vo |-> VelocityObstacle3D_new(args.agent_self, args.agent_other,
                                             args.time_horizon)]
    /\ UNCHANGED <<args, ret>>

\* the obstacle the other agent of the pair builds
NewReciprocalVelocityObstacle ==
    /\ pc = "vo_new"
    /\ pc' = "vo_pair"
    /\ loc' = [vo |-> loc.vo,
               reciprocal |-> VelocityObstacle3D_new(args.agent_other, args.agent_self,
                                                     args.time_horizon)]
    /\ UNCHANGED <<args, ret>>

VelocityObstacleOrcaPlane ==
    /\ pc = "vo_pair"
    /\ pc' = "vo_done"
    /\ ret' = VelocityObstacle3D_orca_plane(loc.vo, args.time_step)
    /\ UNCHANGED <<args, loc>>

NewAccelerationVelocityObstacle ==
    /\ pc = "agents"
    /\ pc' = "avo_new"
    /\ \E acc_control_param \in AccControlParams, discrete_steps \in 0..MaxDiscreteSteps :
          loc' = [avo |-> AccelerationVelocityObstacle3D_new(args.agent_self, args.agent_other,
                              args.time_horizon, acc_control_param, discrete_steps)]
    /\ UNCHANGED <<args, ret>>

AccelerationOrcaPlane ==
    /\ pc = "avo_new"
    /\ pc' = "avo_done"
    /\ \E left_boundary \in 0..loc.avo.discrete_steps,
          right_boundary \in 0..loc.avo.discrete_steps :
          /\ loc' = [avo |-> loc.avo, left_boundary |-> left_boundary,
                     right_boundary |-> right_boundary]
          /\ ret' = AccelerationVelocityObstacle3D_orca_plane(loc.avo, left_boundary,
                                                              right_boundary)
    /\ UNCHANGED args

NewFormationVelocityObstacle ==
    /\ pc = "agents"
    /\ pc' = "fvo_new"
    /\ loc' = [fvo |-> FormationVelocityObstacle3D_new(args.agent_self, args.agent_other,
                                                       args.time_horizon)]
    /\ UNCHANGED <<args, ret>>

FormationOrcaPlane ==
    /\ pc = "fvo_new"
    /\ pc' = "fvo_done"
    /\ \E number_of_yaw_samples \in YawSamples, number_of_pitch_samples \in PitchSamples,
          roll \in Rolls :
          /\ loc' = [fvo |-> loc.fvo, number_of_yaw_samples |-> number_of_yaw_samples,
                     number_of_pitch_samples |-> number_of_pitch_samples, roll |-> roll]
          /\ ret' = FormationVelocityObstacle3D_orca_plane(loc.fvo, number_of_yaw_samples,
                                                           number_of_pitch_samples, roll)
    /\ UNCHANGED args

NextVelocityObstacle ==
    \/ NewVelocityObstacle
    \/ NewReciprocalVelocityObstacle
    \/ VelocityObstacleOrcaPlane
    \/ NewAccelerationVelocityObstacle
    \/ AccelerationOrcaPlane
    \/ NewFormationVelocityObstacle
    \/ FormationOrcaPlane

SpecVelocityObstacle == InitVelocityObstacle /\ [][NextVelocityObstacle]_vars

(***************************************************************************)
(* Properties of the velocity obstacles.                                   *)
(***************************************************************************)
SphereColliders ==
    args.agent_self.shape.shape = "Sphere" /\ args.agent_other.shape.shape = "Sphere"

NonColliding(vo) == ~Collider_contains(vo.shape, vo.relative_position)

\* the time in [0, time_horizon] at which relative_velocity * t is nearest to
\* the relative position
ClosestApproach(vo) ==
    IF length_squared(vo.relative_velocity) = Zero THEN Zero
    ELSE FClamp(FDiv(dot(vo.relative_velocity, vo.relative_position),
                     length_squared(vo.relative_velocity)),
                Zero, vo.time_horizon)

\* the relative velocity leads into the combined sphere within the time horizon
InsideTruncatedObstacle(vo) ==
    FLe(length_squared(vsub(vmul(vo.relative_velocity, ClosestApproach(vo)),
                            vo.relative_position)),
        FMul(vo.shape.radius, vo.shape.radius))

\* C6: for two non-colliding agents whose relative velocity is outside the
\* truncated velocity obstacle, the plane of VelocityObstacle3D::orca_plane
\* has the agent's current velocity in its half-space:
\* normal . (agent_velocity - origin) >= 0.
C6_CurrentVelocityStaysAllowed ==
    (pc = "vo_done" /\ SphereColliders /\ NonColliding(loc.vo)
        /\ ~InsideTruncatedObstacle(loc.vo)) =>
        /\ ret.kind = "Plane"
        /\ FGe(dot(ret.plane.normal, vsub(loc.vo.agent_velocity, ret.plane.origin)), Zero)

C8_EveryColliderGivesPlane ==
    pc = "vo_done" => ret.kind = "Plane"

\* C9: with zero relative velocity, coincident positions or zero-radius
\* colliders, VelocityObstacle3D::new followed by orca_plane gives a plane
\* with a finite origin and a finite normal.
C9_DegenerateInputsGiveFinitePlane ==
    (pc = "vo_done" /\ SphereColliders /\ IsFinite(loc.vo.responsibility)
        /\ (\/ loc.vo.relative_velocity = P3(0, 0, 0)
            \/ loc.vo.relative_position = P3(0, 0, 0)
            \/ loc.vo.shape.radius = Zero)) =>
        /\ ret.kind = "Plane"
        /\ VecFinite(ret.plane.origin)
        /\ VecFinite(ret.plane.normal)

\* C10: the responsibility stored by VelocityObstacle3D::new(a, b, t) plus the
\* one stored by VelocityObstacle3D::new(b, a, t) is 1, and two agents left
\* with the responsibility of Agent3D::new get 1/2 each.
C10_ResponsibilitiesSumToOne ==
    pc \in {"vo_pair", "vo_done"} =>
        /\ FAdd(loc.vo.responsibility, loc.reciprocal.responsibility) = One
        /\ (args.agent_self.responsibility = Frac(1, 2)
               /\ args.agent_other.responsibility = Frac(1, 2)) =>
            (loc.vo.responsibility = Frac(1, 2) /\ loc.reciprocal.responsibility = Frac(1, 2))

(***************************************************************************)
(* geometry: the remaining operations of the shape contract                *)
(***************************************************************************)
\* f32::clamp panics when a lower corner is above the upper corner
Aabb_constrain_panics(b) == \E k \in 1..3 : ~FClampOk(FSub(b.center[k], b.half_sizes[k]), FAdd(b.center[k], b.half_sizes[k]))

Aabb_constrain(b, pt) ==
    IF Aabb_constrain_panics(b) THEN Panicked
    ELSE <<FClamp(pt[1], FSub(b.center[1], b.half_sizes[1]), FAdd(b.center[1], b.half_sizes[1])),
           FClamp(pt[2], FSub(b.center[2], b.half_sizes[2]), FAdd(b.center[2], b.half_sizes[2])),
           FClamp(pt[3], FSub(b.center[3], b.half_sizes[3]), FAdd(b.center[3], b.half_sizes[3]))>>

\* delta = |pt - center| - half_sizes
Aabb_delta(b, pt) ==
    <<FSub(FAbs(FSub(pt[1], b.center[1])), b.half_sizes[1]),
      FSub(FAbs(FSub(pt[2], b.center[2])), b.half_sizes[2]),
      FSub(FAbs(FSub(pt[3], b.center[3])), b.half_sizes[3])>>

Aabb_signed_distance_with(outside_distance, inside_distance) ==
    IF FGt(outside_distance, Zero) THEN outside_distance ELSE inside_distance

Aabb_signed_distance_at(delta) ==
    Aabb_signed_distance_with(
        length(<<FMax(delta[1], Zero), FMax(delta[2], Zero), FMax(delta[3], Zero)>>),
        FMin(FMax(FMax(delta[1], delta[2]), delta[3]), Zero))

Aabb_signed_distance(b, pt) == Aabb_signed_distance_at(Aabb_delta(b, pt))

Sphere_signed_distance(s, pt) == FSub(length(vsub(pt, s.origin)), s.radius)

Circle_closest_point_and_normal(c, pt) ==
    <<vadd(c.origin, vmul(normalize(vsub(pt, c.origin)), c.radius)),
      normalize(vsub(pt, c.origin))>>

Circle_signed_distance(c, pt) == FSub(length(vsub(pt, c.origin)), c.radius)

HalfPlane_constrain(hp, pt) ==
    IF FGe(HalfPlane_signed_distance(hp, pt), FNeg(EPSILON)) THEN pt
    ELSE vsub(pt, vmul(hp.normal, HalfPlane_signed_distance(hp, pt)))

HalfPlane_closest_point_and_normal(hp, pt) == <<HalfPlane_constrain(hp, pt), hp.normal>>

Hyperplane_signed_distance(h, pt) == dot(h.normal, vsub(pt, h.origin))

Spherinder_contains(s, pt) ==
    FLe(length_squared(xyz(vsub(pt, s.origin))), FMul(s.radius, s.radius))

Spherinder_signed_distance(s, pt) == FSub(length(xyz(vsub(pt, s.origin))), s.radius)

LineSegment2D_contains_at(seg, relative_pt, t) ==
    IF FLt(t, seg.t_min) \/ FGt(t, seg.t_max) THEN FALSE
    ELSE FLt(length_squared(vsub(vmul(seg.direction, t), relative_pt)), EPSILON)

LineSegment2D_contains(seg, pt) ==
    LineSegment2D_contains_at(seg, vsub(pt, seg.origin), dot(vsub(pt, seg.origin), seg.direction))

\* f32::clamp panics unless t_min <= t_max
LineSegment2D_signed_distance(seg, pt) ==
    IF LineSegment2D_constrain_panics(seg) THEN Panicked
    ELSE length(vsub(LineSegment2D_constrain(seg, pt), pt))

Ray3D_new(origin, direction) == [origin |-> origin, direction |-> normalize(direction)]

\* (pt - origin).dot(direction) * direction: the origin is not added back
Ray3D_projected(ray, pt) == vmul(ray.direction, dot(vsub(pt, ray.origin), ray.direction))

Ray3D_contains(ray, pt) == FLt(length(vsub(Ray3D_projected(ray, pt), ray.origin)), EPSILON)

Ray3D_constrain(ray, pt) == Ray3D_projected(ray, pt)

\* glam's normalize_or_zero: zero unless the reciprocal length is finite and positive
normalize_or_zero(a) ==
    IF IsFinite(FDiv(One, length(a))) /\ FGt(FDiv(One, length(a)), Zero) THEN normalize(a)
    ELSE vmul(a, Zero)

Ray3D_closest_point_and_normal(ray, pt) ==
    <<Ray3D_projected(ray, pt), normalize_or_zero(vsub(Ray3D_projected(ray, pt), pt))>>

Ray3D_signed_distance(ray, pt) == length(vsub(Ray3D_projected(ray, pt), pt))

(***************************************************************************)
(* The shape contract (Vec2Operations, Vec3Operations, Vec4Operations) as  *)
(* one dispatch on the kind of the shape.                                  *)
(***************************************************************************)
Shape_contains(kind, s, pt) ==
    CASE kind = "Sphere" -> Sphere_contains(s, pt)
      [] kind = "Aabb" -> Aabb_contains(s, pt)
      [] kind = "Plane" -> Plane_contains(s, pt)
      [] kind = "Hyperplane" -> Hyperplane_contains(s, pt)
      [] kind = "HalfPlane" -> HalfPlane_contains(s, pt)
      [] kind = "Spherinder" -> Spherinder_contains(s, pt)
      [] kind = "Ray3D" -> Ray3D_contains(s, pt)
      [] kind = "Circle" -> Circle_contains(s, pt)
      [] kind = "LineSegment2D" -> LineSegment2D_contains(s, pt)

Shape_constrain(kind, s, pt) ==
    CASE kind = "Sphere" -> Sphere_constrain(s, pt)
      [] kind = "Aabb" -> Aabb_constrain(s, pt)
      [] kind = "Plane" -> Plane_constrain(s, pt)
      [] kind = "Hyperplane" -> Hyperplane_constrain(s, pt)
      [] kind = "HalfPlane" -> HalfPlane_constrain(s, pt)
      [] kind = "Spherinder" -> Spherinder_constrain(s, pt)
      [] kind = "Ray3D" -> Ray3D_constrain(s, pt)
      [] kind = "Circle" -> Circle_constrain(s, pt)
      [] kind = "LineSegment2D" ->
            IF LineSegment2D_constrain_panics(s) THEN Panicked ELSE LineSegment2D_constrain(s, pt)

Shape_signed_distance(kind, s, pt) ==
    CASE kind = "Sphere" -> Sphere_signed_distance(s, pt)
      [] kind = "Aabb" -> Aabb_signed_distance(s, pt)
      [] kind = "Plane" -> Plane_signed_distance(s, pt)
      [] kind = "Hyperplane" -> Hyperplane_signed_distance(s, pt)
      [] kind = "HalfPlane" -> HalfPlane_signed_distance(s, pt)
      [] kind = "Spherinder" -> Spherinder_signed_distance(s, pt)
      [] kind = "Ray3D" -> Ray3D_signed_distance(s, pt)
      [] kind = "Circle" -> Circle_signed_distance(s, pt)
      [] kind = "LineSegment2D" -> LineSegment2D_signed_distance(s, pt)

\* Vec4Operations has no closest_point_and_normal
HasClosestPoint(kind) == kind \notin {"Hyperplane", "Spherinder"}

Shape_closest_point_and_normal(kind, s, pt) ==
    CASE kind = "Sphere" -> Sphere_closest_point_and_normal(s, pt)
      [] kind = "Aabb" -> Aabb_closest_point_and_normal(s, pt)
      [] kind = "Plane" -> Plane_closest_point_and_normal(s, pt)
      [] kind = "HalfPlane" -> HalfPlane_closest_point_and_normal(s, pt)
      [] kind = "Ray3D" -> Ray3D_closest_point_and_normal(s, pt)
      [] kind = "Circle" -> Circle_closest_point_and_normal(s, pt)
      [] kind = "LineSegment2D" -> LineSegment2D_closest_point_and_normal(s, pt)

(***************************************************************************)
(* Specification SpecShapes: a caller holds either two colliders and a     *)
(* relative position, or one shape and one point, and calls one operation  *)
(* of the shape contract on them.                                          *)
(***************************************************************************)
Colliders ==
    {Collider_new_sphere(FInt(1)), Collider_new_sphere(FInt(3)),
     Collider_new_aabb(P3(0, 0, 0), P3(1, 1, 1)),
     Collider_new_aabb(P3(1, 0, 0), P3(2, 1, 1))}

RelativeCoordinates == {0, 2, 3}

RelativePositions == {P3(x, y, z) : x \in RelativeCoordinates, y \in RelativeCoordinates, z \in RelativeCoordinates}

\* points at rational distances from the centres of the round shapes below
Points2 ==
    {P2(0, 0), P2(1, 0), P2(2, 0), P2(4, 0), P2(5, 0), P2(6, 0), P2(-3, 0), P2(0, -5),
     P2(0, 6), P2(3, 4), P2(3, -4), P2(6, 8), P2(-8, 6)}

Points3 ==
    {P3(0, 0, 0), P3(1, 0, 0), P3(-2, 0, 0), P3(0, -3, 0), P3(0, 4, 0), P3(0, 0, -1),
     P3(0, 0, 5), P3(0, 0, 6), P3(3, 0, 4), P3(2, 2, 1), P3(4, 4, 2), P3(2, 3, 6),
     P3(6, 0, 8), P3(0, 3, 4), P3(1, 4, 8), P3(3, 0, 0)}

Points4 ==
    {P4(x, y, 0, w) : x \in {0, 3, 6}, y \in {0}, w \in {-1, 0, 2}}
      \cup {P4(3, 4, 0, w) : w \in {-1, 0, 2}} \cup {P4(6, 8, 0, w) : w \in {-1, 0, 2}}

ShapeOf(kind, shape) == [kind |-> kind, shape |-> shape]

Shapes2 ==
    {ShapeOf("HalfPlane", HalfPlane_new(P2(1, 0), P2(1, 0))),
     ShapeOf("Circle", Circle_new(FInt(5), P2(0, 0))),
     ShapeOf("LineSegment2D", LineSegment2D_new(P2(0, 0), P2(1, 0), Zero, FInt(4)))}

Shapes3 ==
    {ShapeOf("Sphere", Sphere_new(FInt(5), P3(0, 0, 0))),
     ShapeOf("Aabb", Aabb_new(P3(0, 0, 0), P3(1, 4, 4))),
     ShapeOf("Aabb", Aabb_new(P3(1, 0, 0), P3(2, 1, 1))),
     ShapeOf("Plane", Plane_new(P3(0, 0, 1), P3(0, 0, 1))),
     ShapeOf("Ray3D", Ray3D_new(P3(0, 0, 0), P3(0, 0, 1))),
     ShapeOf("Ray3D", Ray3D_new(P3(1, 0, 0), P3(2, 0, 0)))}

Shapes4 ==
    {ShapeOf("Hyperplane", Hyperplane_new(P4(0, 0, 0, 0), P4(0, 0, 0, 1))),
     ShapeOf("Spherinder", Spherinder_new(P4(0, 0, 0, 0), FInt(5)))}

ShapeArgs(s, pt) == [kind |-> s.kind, shape |-> s.shape, pt |-> pt]

InitShapes ==
    /\ \/ /\ pc = "colliders"
          /\ \E a \in Colliders, b \in Colliders, p \in RelativePositions :
                args = [a |-> a, b |-> b, relative_position |-> p]
       \/ /\ pc = "shape"
          /\ \/ \E s \in Shapes2, pt \in Points2 : args = ShapeArgs(s, pt)
             \/ \E s \in Shapes3, pt \in Points3 : args = ShapeArgs(s, pt)
             \/ \E s \in Shapes4, pt \in Points4 : args = ShapeArgs(s, pt)
    /\ loc = [shape |-> None, first |-> None]
    /\ ret = NotReturned

\* VelocityObstacle3D::new sums the two colliders and orca_plane asks the sum
\* whether it contains the relative position
MinkowskiSumContains ==
    /\ pc = "colliders"
    /\ pc' = "summed"
    /\ loc' = [loc EXCEPT !.shape = Some(Collider_minkowski_sum(args.a, args.b))]
    /\ ret' = Collider_contains(Collider_minkowski_sum(args.a, args.b), args.relative_position)
    /\ UNCHANGED args

Contains ==
    /\ pc = "shape"
    /\ pc' = "contains"
    /\ ret' = Shape_contains(args.kind, args.shape, args.pt)
    /\ UNCHANGED <<args, loc>>

Constrain ==
    /\ pc = "shape"
    /\ pc' = "constrained"
    /\ ret' = Shape_constrain(args.kind, args.shape, args.pt)
    /\ UNCHANGED <<args, loc>>

\* the caller hands the constrained point to constrain once more
ConstrainAgain ==
    /\ pc = "constrained"
    /\ ret # Panicked
    /\ pc' = "constrained_twice"
    /\ loc' = [loc EXCEPT !.first = Some(ret)]
    /\ ret' = Shape_constrain(args.kind, args.shape, ret)
    /\ UNCHANGED args

SignedDistance ==
    /\ pc = "shape"
    /\ pc' = "measured"
    /\ ret' = Shape_signed_distance(args.kind, args.shape, args.pt)
    /\ UNCHANGED <<args, loc>>

ClosestPointAndNormal ==
    /\ pc = "shape"
    /\ HasClosestPoint(args.kind)
    /\ pc' = "closest"
    /\ ret' = Shape_closest_point_and_normal(args.kind, args.shape, args.pt)
    /\ UNCHANGED <<args, loc>>

NextShapes ==
    \/ MinkowskiSumContains
    \/ Contains
    \/ Constrain
    \/ ConstrainAgain
    \/ SignedDistance
    \/ ClosestPointAndNormal

SpecShapes == InitShapes /\ [][NextShapes]_vars

(***************************************************************************)
(* Claims about the shape contract                                         *)
(***************************************************************************)
CenterOf(c) == IF c.shape = "Sphere" THEN c.origin ELSE c.center

\* how far the coordinate d lies outside the interval [-h, h]
Excess(d, h) == FMax(FSub(FAbs(d), h), Zero)

\* squared distance from the point d to the box of half sizes h around 0
BoxGapSquared(d, h) ==
    FSum(<<FMul(Excess(d[1], h[1]), Excess(d[1], h[1])),
           FMul(Excess(d[2], h[2]), Excess(d[2], h[2])),
           FMul(Excess(d[3], h[3]), Excess(d[3], h[3]))>>)

\* a and b share a point when b's centre is at d from a's centre
Overlap_at(a, b, d) ==
    IF a.shape = "Sphere" /\ b.shape = "Sphere"
    THEN FLe(length_squared(d), FMul(FAdd(a.radius, b.radius), FAdd(a.radius, b.radius)))
    ELSE IF a.shape = "Sphere" THEN FLe(BoxGapSquared(d, b.half_sizes), FMul(a.radius, a.radius))
    ELSE IF b.shape = "Sphere" THEN FLe(BoxGapSquared(d, a.half_sizes), FMul(b.radius, b.radius))
    ELSE \A k \in 1..3 : FLe(FAbs(d[k]), FAdd(a.half_sizes[k], b.half_sizes[k]))

\* a stands at 0 and b at relative_position, each with its own offset
Overlap(a, b, relative_position) ==
    Overlap_at(a, b, vsub(vadd(relative_position, CenterOf(b)), CenterOf(a)))

\* C11: for every pair of colliders and every relative position, the
\* Minkowski sum contains the relative position exactly when the two shapes
\* placed at that relative position overlap.
C11_SumContainsIffOverlap ==
    pc = "summed" => (ret <=> Overlap(args.a, args.b, args.relative_position))

\* C12: for every shape of the shape contract and every point p, if
\* contains(p) is true then constrain(p) returns p unchanged.
C12_ConstrainKeepsContainedPoints ==
    (pc = "constrained" /\ Shape_contains(args.kind, args.shape, args.pt)) => ret = args.pt

\* C13: for every shape and every point p, constrain(constrain(p)) is
\* constrain(p).
C13_ConstrainIdempotent ==
    pc = "constrained_twice" => ret = loc.first.value

\* C14: for every shape and every point p, signed_distance(p) is negative
\* inside, zero on the boundary and positive outside, so that contains(p)
\* holds exactly when signed_distance(p) <= 0, within epsilon.
C14_SignedDistanceAgreesWithContains ==
    pc = "measured" => (Shape_contains(args.kind, args.shape, args.pt) <=> FLe(ret, EPSILON))

\* the points of the surface of the box b that are candidates for the nearest
\* one: the projections of pt on the six faces
Aabb_face_points(b, pt) ==
    {[Aabb_constrain(b, pt) EXCEPT ![k] = FAdd(b.center[k], FMul(s, b.half_sizes[k]))] : k \in 1..3, s \in {FInt(-1), One}}

\* C15: closest_point_and_normal returns the point of the shape's surface
\* nearest to the input point, inside, on or outside the shape: for an Aabb
\* no point of any of the six faces is nearer than the returned one, and for
\* a Sphere or a Circle the returned point is at the radius from the centre.
C15_ClosestPointIsNearestSurfacePoint ==
    /\ (pc = "closest" /\ args.kind = "Aabb") =>
          \A q \in Aabb_face_points(args.shape, args.pt) :
              FLe(DistanceSquared(ret[1], args.pt), DistanceSquared(q, args.pt))
    /\ (pc = "closest" /\ args.kind \in {"Sphere", "Circle"}) =>
          DistanceSquared(ret[1], args.shape.origin) = FMul(args.shape.radius, args.shape.radius)

(***************************************************************************)
(* Specification SpecMesh: FormationVelocityObstacle3D::construct_vo_mesh  *)
(* is called twice on the same obstacle.  sample_points returns a HashMap; *)
(* the loop pops the keys in the map's iteration order, which the          *)
(* standard library leaves unspecified and seeds differently for every     *)
(* map, so each pop takes any key that is left.                            *)
(***************************************************************************)
Formations ==
    {Agent3D_new(P3(0, 0, 0), P3(9, 0, 0), Collider_new_aabb(P3(0, 0, 0), P3(0, 8, 0))),
     Agent3D_new(P3(0, 0, 0), P3(0, 0, 0), Collider_new_aabb(P3(0, 0, 0), P3(0, 8, 0)))}

Obstacles ==
    {Agent3D_new(P3(8, 0, 0), P3(0, 0, 0), Collider_new_sphere(One)),
     Agent3D_new(P3(-8, 0, 0), P3(0, 0, 0), Collider_new_sphere(One))}

InitMesh ==
    /\ pc = "call_mesh"
    /\ \E formation \in Formations, agent_other \in Obstacles :
          args = [fvo |-> FormationVelocityObstacle3D_new(formation, agent_other, One),
                  number_of_yaw_samples |-> 4, number_of_pitch_samples |-> 2, roll |-> 0]
    /\ loc = [invocation |-> 1, points |-> <<>>, points_to_process |-> {},
              triangles |-> <<>>, first |-> None]
    /\ ret = NotReturned

\* let points = self.sample_points(..); let mut points_to_process = points.keys().collect()
SamplePoints ==
    /\ pc = "call_mesh"
    /\ pc' = "pop"
    /\ loc' = [loc EXCEPT
                 !.points = FormationVelocityObstacle3D_sample_points(args.fvo,
                                args.number_of_yaw_samples, args.number_of_pitch_samples, args.roll),
                 !.points_to_process =
                     {k \in (0..args.number_of_yaw_samples) \X (0..args.number_of_pitch_samples) :
                         FormationVelocityObstacle3D_sample_points(args.fvo,
                             args.number_of_yaw_samples, args.number_of_pitch_samples,
                             args.roll)[k].some},
                 !.triangles = <<>>]
    /\ UNCHANGED <<args, ret>>

\* one pass of while let Some((yaw_step, pitch_step)) = points_to_process.pop()
PopSample ==
    /\ pc = "pop"
    /\ \E key \in loc.points_to_process :
          loc' = [loc EXCEPT
                    !.points_to_process = @ \ {key},
                    !.triangles = @ \o MeshKey(loc.points, key, args.number_of_yaw_samples,
                                               args.number_of_pitch_samples)]
    /\ UNCHANGED <<pc, args, ret>>

\* the first call returns its triangles and the caller calls again
ReturnFirstMesh ==
    /\ pc = "pop"
    /\ loc.points_to_process = {}
    /\ loc.invocation = 1
    /\ pc' = "call_mesh"
    /\ loc' = [loc EXCEPT !.invocation = 2, !.first = Some(loc.triangles)]
    /\ UNCHANGED <<args, ret>>

ReturnSecondMesh ==
    /\ pc = "pop"
    /\ loc.points_to_process = {}
    /\ loc.invocation = 2
    /\ pc' = "mesh_done"
    /\ ret' = loc.triangles
    /\ UNCHANGED <<args, loc>>

NextMesh == SamplePoints \/ PopSample \/ ReturnFirstMesh \/ ReturnSecondMesh

SpecMesh == InitMesh /\ [][NextMesh]_vars

\* C16: the per-agent computation is a deterministic function of its
\* arguments: two invocations with identical inputs give identical results
\* and no step depends on the iteration order of an unordered container.
\* Here: the second construct_vo_mesh on the same obstacle gives the same
\* list of triangles as the first.
C16_SameInputsSameMesh ==
    pc = "mesh_done" => ret = loc.first.value

(***************************************************************************)
(* coordination: hungarian(cost).  A matrix is a sequence of rows; the     *)
(* vectors job, yt, min_to, prv and in_z are indexed 0..w and ys 0..j-1    *)
(* as in the source.  Specification SpecHungarian runs the routine one     *)
(* loop pass at a time.                                                    *)
(***************************************************************************)
MaxRows == 3

ColumnCounts == {1, 2, 3}

Costs == {FInt(1), FInt(2)}

Matrices ==
    UNION {[1..rows -> [1..columns -> Costs]] :
           rows \in 1..MaxRows, columns \in ColumnCounts}

\* cost[j][w] with the source's 0-based indexes
CostAt(cost, j, w) == cost[j + 1][w + 1]

\* the state of the while loop over job[w_curr], as the scan of 0..w leaves it
Scan(min_to, prv, delta, w_next) == [min_to |-> min_to, prv |-> prv, delta |-> delta, w_next |-> w_next]

ScanColumn_with(s, w_, w_curr, diff) ==
    Scan(IF FLt(diff, s.min_to[w_]) THEN [s.min_to EXCEPT ![w_] = diff] ELSE s.min_to,
         IF FLt(diff, s.min_to[w_]) THEN [s.prv EXCEPT ![w_] = Some(w_curr)] ELSE s.prv,
         IF FLt(FMin(diff, s.min_to[w_]), s.delta) THEN FMin(diff, s.min_to[w_]) ELSE s.delta,
         IF FLt(FMin(diff, s.min_to[w_]), s.delta) THEN w_ ELSE s.w_next)

\* the body of for w_ in 0..w
ScanColumn(s, w_, cost, j, l) ==
    IF l.in_z[w_] THEN s
    ELSE ScanColumn_with(s, w_, l.w_curr, FSub(FSub(CostAt(cost, j, w_), l.ys[j]), l.yt[w_]))

RECURSIVE ScanColumns(_, _, _, _, _)
ScanColumns(s, w_, cost, j, l) ==
    IF w_ = Len(cost[1]) THEN s
    ELSE ScanColumns(ScanColumn(s, w_, cost, j, l), w_ + 1, cost, j, l)

\* for w_ in 0..=w: the potentials of the columns in Z and of their jobs move by delta
hungarian_update(l, s) ==
    [l EXCEPT
       !.ys = [j_ \in DOMAIN l.ys |->
                 IF \E w_ \in DOMAIN l.job : l.in_z[w_] /\ l.job[w_] = Some(j_)
                 THEN FAdd(l.ys[j_], s.delta) ELSE l.ys[j_]],
       !.yt = [w_ \in DOMAIN l.yt |-> IF l.in_z[w_] THEN FSub(l.yt[w_], s.delta) ELSE l.yt[w_]],
       !.min_to = [w_ \in DOMAIN l.min_to |->
                     IF l.in_z[w_] THEN s.min_to[w_] ELSE FSub(s.min_to[w_], s.delta)],
       !.prv = s.prv,
       !.w_curr = s.w_next]

hungarian_mark(l) == [l EXCEPT !.in_z[l.w_curr] = TRUE]

\* a column in Z without a job: panic!("No job found for worker ..")
hungarian_no_job(l) == \E w_ \in DOMAIN l.job : l.in_z[w_] /\ ~l.job[w_].some

\* one pass of while let Some(j) = job[w_curr]
hungarian_while(cost, l) ==
    hungarian_update(hungarian_mark(l),
                     ScanColumns(Scan(l.min_to, l.prv, PInf, 0), 0, cost,
                                 l.job[l.w_curr].value, hungarian_mark(l)))

\* job[..j].iter().enumerate().filter_map(|(j, w)| w.map(|w| (j, w, cost[j][w])))
RECURSIVE hungarian_result(_, _, _)
hungarian_result(cost, job, i) ==
    IF i = Len(cost) THEN <<>>
    ELSE (IF job[i].some THEN << <<i, job[i].value, CostAt(cost, i, job[i].value)>> >> ELSE <<>>)
         \o hungarian_result(cost, job, i + 1)

\* the returned Vec<(usize, usize, f32)>
Assigned(triples) == [kind |-> "Assigned", triples |-> triples]

\* no assertion: every matrix is let in
hungarian_precondition_none(cost) == TRUE

\* rows < columns only: square matrices rejected as well
hungarian_precondition_strict(cost) == Len(cost) < Len(cost[1])

\* assert!(j <= w, "The number of rows must be less than or equal to the number of columns")
hungarian_precondition(cost) == Len(cost) <= Len(cost[1])

InitHungarian ==
    /\ pc = "hungarian"
    /\ args \in [cost : Matrices]
    /\ loc = <<>>
    /\ ret = NotReturned

\* assert!(j <= w) fails
HungarianAssertFails ==
    /\ pc = "hungarian"
    /\ ~hungarian_precondition(args.cost)
    /\ pc' = "hungarian_done"
    /\ ret' = Panicked
    /\ UNCHANGED <<args, loc>>

\* assert!(j <= w) holds; job, ys and yt are allocated
HungarianStart ==
    /\ pc = "hungarian"
    /\ hungarian_precondition(args.cost)
    /\ pc' = "for_j_curr"
    /\ loc' = [j_curr |-> 0, w_curr |-> 0,
               job |-> [w_ \in 0..Len(args.cost[1]) |-> None],
               ys |-> [j_ \in 0..(Len(args.cost) - 1) |-> Zero],
               yt |-> [w_ \in 0..Len(args.cost[1]) |-> Zero],
               min_to |-> [w_ \in 0..Len(args.cost[1]) |-> PInf],
               prv |-> [w_ \in 0..Len(args.cost[1]) |-> None],
               in_z |-> [w_ \in 0..Len(args.cost[1]) |-> FALSE]]
    /\ UNCHANGED <<args, ret>>

\* for j_curr in 0..j: the head of one pass
HungarianForRow ==
    /\ pc = "for_j_curr"
    /\ loc.j_curr < Len(args.cost)
    /\ pc' = "while_job"
    /\ loc' = [loc EXCEPT
                 !.w_curr = Len(args.cost[1]),
                 !.job[Len(args.cost[1])] = Some(loc.j_curr),
                 !.min_to = [w_ \in DOMAIN loc.min_to |-> PInf],
                 !.prv = [w_ \in DOMAIN loc.prv |-> None],
                 !.in_z = [w_ \in DOMAIN loc.in_z |-> FALSE]]
    /\ UNCHANGED <<args, ret>>

\* one pass of the while loop, or the panic of its second for loop
HungarianWhile ==
    /\ pc = "while_job"
    /\ loc.job[loc.w_curr].some
    /\ IF hungarian_no_job(hungarian_mark(loc))
       THEN /\ pc' = "hungarian_done"
            /\ ret' = Panicked
            /\ UNCHANGED loc
       ELSE /\ loc' = hungarian_while(args.cost, loc)
            /\ UNCHANGED <<pc, ret>>
    /\ UNCHANGED args

HungarianWhileEnds ==
    /\ pc = "while_job"
    /\ ~loc.job[loc.w_curr].some
    /\ pc' = "loop"
    /\ UNCHANGED <<args, loc, ret>>

\* loop { .. job[w_curr] = job[prv[w_curr]]; w_curr = prv[w_curr] }
\* prv[w_curr].unwrap() panics on None
HungarianLoop ==
    /\ pc = "loop"
    /\ loc.w_curr # Len(args.cost[1])
    /\ IF ~loc.prv[loc.w_curr].some
       THEN /\ pc' = "hungarian_done"
            /\ ret' = Panicked
            /\ UNCHANGED loc
       ELSE /\ loc' = [loc EXCEPT !.job[loc.w_curr] = loc.job[loc.prv[loc.w_curr].value],
                                  !.w_curr = loc.prv[loc.w_curr].value]
            /\ UNCHANGED <<pc, ret>>
    /\ UNCHANGED args

HungarianLoopBreaks ==
    /\ pc = "loop"
    /\ loc.w_curr = Len(args.cost[1])
    /\ pc' = "for_j_curr"
    /\ loc' = [loc EXCEPT !.j_curr = @ + 1]
    /\ UNCHANGED <<args, ret>>

HungarianReturn ==
    /\ pc = "for_j_curr"
    /\ loc.j_curr = Len(args.cost)
    /\ pc' = "hungarian_done"
    /\ ret' = Assigned(hungarian_result(args.cost, loc.job, 0))
    /\ UNCHANGED <<args, loc>>

NextHungarian ==
    \/ HungarianAssertFails
    \/ HungarianStart
    \/ HungarianForRow
    \/ HungarianWhile
    \/ HungarianWhileEnds
    \/ HungarianLoop
    \/ HungarianLoopBreaks
    \/ HungarianReturn

SpecHungarian == InitHungarian /\ [][NextHungarian]_vars

(***************************************************************************)
(* hungarian: the assignment it returns                                    *)
(***************************************************************************)
RECURSIVE SumOfCosts(_)
SumOfCosts(triples) ==
    IF triples = <<>> THEN Zero ELSE FAdd(triples[1][3], SumOfCosts(Tail(triples)))

\* every assignment of each row to a column of its own
Assignments(cost) ==
    {f \in [0..(Len(cost) - 1) -> 0..(Len(cost[1]) - 1)] :
        \A a, b \in DOMAIN f : a # b => f[a] # f[b]}

RECURSIVE AssignmentCost(_, _, _)
AssignmentCost(cost, f, row) ==
    IF row = Len(cost) THEN Zero
    ELSE FAdd(CostAt(cost, row, f[row]), AssignmentCost(cost, f, row + 1))

OneTriplePerRow(cost, triples) ==
    /\ Len(triples) = Len(cost)
    /\ \A row \in 0..(Len(cost) - 1) : \E i \in 1..Len(triples) : triples[i][1] = row
    /\ \A i \in 1..Len(triples) :
          /\ triples[i][2] \in 0..(Len(cost[1]) - 1)
          /\ triples[i][3] = CostAt(cost, triples[i][1], triples[i][2])

DistinctColumns(triples) ==
    \A a, b \in 1..Len(triples) : a # b => triples[a][2] # triples[b][2]

MinimalSum(cost, triples) ==
    \A f \in Assignments(cost) : FLe(SumOfCosts(triples), AssignmentCost(cost, f, 0))

\* C17: for every cost matrix with rows <= columns, hungarian returns one
\* triple (row, column, cost[row][column]) per row, with pairwise distinct
\* columns, and the sum of the returned costs is minimal among all
\* assignments of every row to a column of its own.
C17_MinimalAssignment ==
    (pc = "hungarian_done" /\ Len(args.cost) <= Len(args.cost[1])) =>
        /\ ret.kind = "Assigned"
        /\ OneTriplePerRow(args.cost, ret.triples)
        /\ DistinctColumns(ret.triples)
        /\ MinimalSum(args.cost, ret.triples)

MaxAgents == 4

TAU == Frac(710, 113)

SQRT_1_OVER_2 == Frac(7071, 10000)

Template(kind, agent_radius, spacing) == [kind |-> kind, agent_radius |-> agent_radius, spacing |-> spacing, priority |-> One]

Templates ==
    {Template(kind, FInt(agent_radius), FInt(spacing)) :
        kind \in {"Line", "Queue", "V", "Circle"}, agent_radius \in {1, 2}, spacing \in {0, 1}}

\* the distance between two neighbours: spacing + 2.0 * agent_radius
Pitch(t) == FAdd(t.spacing, FMul(FInt(2), t.agent_radius))

\* i as f32 - (n_agents as f32 / 2.0).floor()
Offset(i, n_agents) == FInt(i - (n_agents \div 2))

LineFormation_position(t, n_agents, i) == <<FMul(Offset(i, n_agents), Pitch(t)), Zero, Zero>>

QueueFormation_position(t, n_agents, i) == <<Zero, Zero, FMul(Offset(i, n_agents), Pitch(t))>>

VFormation_position(t, n_agents, i) ==
    <<FMul(Offset(i, n_agents), FMul(Pitch(t), SQRT_1_OVER_2)),
      Zero,
      FMul(FNeg(FAbs(Offset(i, n_agents))), FMul(Pitch(t), SQRT_1_OVER_2))>>

CircleFormation_get_radius(t, n_agents) ==
    IF n_agents <= 1 THEN Zero
    ELSE FMax(FDiv(FMul(Pitch(t), FInt(n_agents)), TAU), FMul(FInt(2), t.agent_radius))

\* angle = i / n_agents * TAU is (4 * i) / n_agents quarter turns
CircleFormation_position(t, n_agents, i) ==
    vmul(<<FInt(QuarterCos((4 * i) \div n_agents)), Zero, FInt(QuarterSin((4 * i) \div n_agents))>>,
         CircleFormation_get_radius(t, n_agents))

create_formation_position(t, n_agents, i) ==
    CASE t.kind = "Line" -> LineFormation_position(t, n_agents, i)
      [] t.kind = "Queue" -> QueueFormation_position(t, n_agents, i)
      [] t.kind = "V" -> VFormation_position(t, n_agents, i)
      [] t.kind = "Circle" -> CircleFormation_position(t, n_agents, i)

\* the V template has no assert!(n_agents > 0)
create_formation_panics(t, n_agents) == t.kind # "V" /\ ~(n_agents > 0)

FormationOf(positions) == [kind |-> "Formation", positions |-> positions]

\* Formation::get_bounds: the centre of the box around the positions
RECURSIVE Formation_min(_, _)
Formation_min(positions, k) ==
    IF positions = <<>> THEN PInf ELSE FMin(positions[1][k], Formation_min(Tail(positions), k))

RECURSIVE Formation_max(_, _)
Formation_max(positions, k) ==
    IF positions = <<>> THEN NInf ELSE FMax(positions[1][k], Formation_max(Tail(positions), k))

Formation_get_bounds_center(positions) ==
    [k \in 1..3 |-> FDiv(FAdd(Formation_min(positions, k), Formation_max(positions, k)), FInt(2))]

InitFormation ==
    /\ pc = "create_formation"
    /\ \E t \in Templates, n_agents \in 0..MaxAgents :
          /\ t.kind = "Circle" => n_agents \in {0, 1, 2, 4}
          /\ args = [template |-> t, n_agents |-> n_agents]
    /\ loc = [positions |-> <<>>, i |-> 0]
    /\ ret = NotReturned

CreateFormationAssertFails ==
    /\ pc = "create_formation"
    /\ create_formation_panics(args.template, args.n_agents)
    /\ pc' = "formation_done"
    /\ ret' = Panicked
    /\ UNCHANGED <<args, loc>>

CreateFormation ==
    /\ pc = "create_formation"
    /\ ~create_formation_panics(args.template, args.n_agents)
    /\ pc' = "for_i"
    /\ UNCHANGED <<args, loc, ret>>

\* one pass of for i in 0..n_agents
PushPosition ==
    /\ pc = "for_i"
    /\ loc.i < args.n_agents
    /\ loc' = [positions |-> Append(loc.positions,
                                    create_formation_position(args.template, args.n_agents, loc.i)),
               i |-> loc.i + 1]
    /\ UNCHANGED <<pc, args, ret>>

ReturnFormation ==
    /\ pc = "for_i"
    /\ loc.i = args.n_agents
    /\ pc' = "formation_done"
    /\ ret' = FormationOf(loc.positions)
    /\ UNCHANGED <<args, loc>>

NextFormation == CreateFormationAssertFails \/ CreateFormation \/ PushPosition \/ ReturnFormation

SpecFormation == InitFormation /\ [][NextFormation]_vars

RECURSIVE SumOfPositions(_)
SumOfPositions(positions) ==
    IF positions = <<>> THEN P3(0, 0, 0) ELSE vadd(positions[1], SumOfPositions(Tail(positions)))

\* the mean of the positions
Centroid(positions) == vmul(SumOfPositions(positions), FDiv(One, FInt(Len(positions))))

\* the readings of "the center of the formation": the origin the template
\* is laid out around, the centre of Formation::get_bounds, the centroid
Centers(positions) == {P3(0, 0, 0), Formation_get_bounds_center(positions), Centroid(positions)}

\* C19: for every formation template and every n_agents >= 1, position 0
\* of the formation returned by create_formation(n_agents) is the center of
\* the formation.
C19_PositionZeroIsCenter ==
    (pc = "formation_done" /\ args.n_agents >= 1) =>
        (ret.kind = "Formation" /\ ret.positions[1] \in Centers(ret.positions))

(***************************************************************************)
(* incremental_optimization_2d: the invariant of its loop                  *)
(***************************************************************************)
\* the pass for half-plane loc.i completed without returning
PassCompleted2D == pc = "loop2d" /\ pc' = "loop2d" /\ loc'.i = loc.i + 1

InBoundingShape2D(v) == Circle_contains(args.maximum_velocity, v)

\* v satisfies the half-planes 0..=i, within EPSILON
SatisfiesUpTo2D(v, i) == \A k \in 1..(i + 1) : HalfPlane_contains(args.half_planes[k], v)

OnBoundary2D(v, i) == HalfPlane_signed_distance(args.half_planes[i + 1], v) = Zero

InitSolvers ==
    \/ Init2D /\ args.preffered_velocity = P2(0, -5)
    \/ Init3D /\ args.preffered_velocity = P3(0, 0, -5)
    \/ InitOptimize /\ args.maximum_velocity = One /\ args.preffered_velocity = P3(0, 5, 0)

NextSolvers == Next2D \/ Next3D \/ NextOptimize

SpecSolvers == InitSolvers /\ [][NextSolvers]_vars

\* the interval left on the boundary line by the earlier half-planes is empty
NoInterval_with(b) == ~b.some \/ BoundsInvalid(CollapseBounds(b))

NoInterval(half_planes, i, b) ==
    ~b.some \/ NoInterval_with(ClipBounds(half_planes, i, 0, half_planes[i + 1].point,
                                          perp(half_planes[i + 1].normal), b))

\* half-plane i does not hold the optimum, and its boundary misses the
\* bounding shape or the 1D sub-problem on it is infeasible
Unsatisfiable2D_at(optimal_velocity, shape, half_planes, i) ==
    /\ ~HalfPlane_contains(half_planes[i + 1], optimal_velocity)
    /\ NoInterval(half_planes, i,
                  get_bounds_on_line(shape, half_planes[i + 1].point,
                                     perp(half_planes[i + 1].normal)))

Unsatisfiable2D ==
    /\ pc = "loop2d"
    /\ loc.i < Len(args.half_planes)
    /\ Unsatisfiable2D_at(loc.optimal_velocity, args.maximum_velocity, args.half_planes, loc.i)

\* the 2D sub-problem on plane i, as incremental_optimization_3d poses it
SubProblem2D(optimal_velocity, planes, i, bounding_shape_2d) ==
    incremental_optimization_2d(
        Plane_project_2d(planes[i + 1],
                         Plane_closest_point_and_normal(planes[i + 1], optimal_velocity)[1]),
        bounding_shape_2d.value, HalfPlanesOn(planes, i, 0))

NoSection3D(optimal_velocity, planes, i, bounding_shape_2d) ==
    \/ ~bounding_shape_2d.some
    \/ SubProblem2D(optimal_velocity, planes, i, bounding_shape_2d).kind = "Infeasible"

\* plane i does not hold the optimum, and it misses the bounding shape or the
\* 2D sub-problem on it is Infeasible
Unsatisfiable3D_at(optimal_velocity, shape, planes, i) ==
    /\ ~Plane_contains(planes[i + 1], optimal_velocity)
    /\ NoSection3D(optimal_velocity, planes, i, project_on_plane(shape, planes[i + 1]))

Unsatisfiable3D ==
    /\ pc = "loop3d"
    /\ loc.i < Len(args.planes)
    /\ Unsatisfiable3D_at(loc.optimal_velocity, args.bounding_shape, args.planes, loc.i)

\* the 3D sub-problem on hyperplane i, as incremental_optimization_4d poses it
SubProblem3D(optimal_velocity, bounding_shape, hyperplanes, i) ==
    incremental_optimization_3d(
        Hyperplane_project_3d(hyperplanes[i + 1],
                              Hyperplane_constrain(hyperplanes[i + 1], optimal_velocity)),
        SpherinderHyperplaneIntersecion_new(bounding_shape, hyperplanes[i + 1]),
        PlanesOn(hyperplanes, i, 0))

\* hyperplane i does not hold the optimum and the 3D sub-problem on it is
\* Infeasible (the section of the spherinder always exists)
Unsatisfiable4D ==
    /\ pc = "solve4d"
    /\ loc.i < Len(loc.hyperplanes)
    /\ ~Hyperplane_contains(loc.hyperplanes[loc.i + 1], loc.optimal_velocity)
    /\ SubProblem3D(loc.optimal_velocity,
                    Spherinder_new(P4(0, 0, 0, 0), args.maximum_velocity),
                    loc.hyperplanes, loc.i).kind = "Infeasible"

\* the constraints 0..=i of a list
UpTo(list, i) == SubSeq(list, 1, i + 1)

ReductionHyperplanes ==
    {{LiftPlane(Plane_new(P3(0, -4, 0), P3(0, 1, 0))),
      LiftPlane(Plane_new(P3(0, 3, 0), P3(0, -1, 0))),
      LiftPlane(Plane_new(P3(0, 0, 0), P3(0, 1, 0))),
      LiftPlane(Plane_new(P3(0, -3, 0), P3(0, -1, 0)))},
     {Hyperplane_new(P4(0, 0, 0, 1), P4(0, 0, 0, 1)),
      Hyperplane_new(P4(0, 0, 0, 0), P4(0, 0, 0, -1)),
      Hyperplane_new(P4(2, 0, 0, 0), P4(1, 0, 0, 0)),
      Hyperplane_new(P4(5, 0, 0, 0), P4(3, 4, 0, 0)),
      Hyperplane_new(P4(0, 0, 1, 1), P4(0, 0, -4, 3)),
      Hyperplane_new(P4(0, 1, 0, 0), P4(4, -3, 0, 0))}}

ReductionPlanes ==
    {Plane_new(P3(3, 0, 0), P3(1, 0, 0)),
     Plane_new(P3(-3, 0, 0), P3(-1, 0, 0)),
     Plane_new(P3(0, 4, 0), P3(0, 1, 0)),
     Plane_new(P3(0, 0, 0), P3(0, 0, 1)),
     Plane_new(P3(1, 1, 1), P3(0, 0, -1)),
     Plane_new(P3(5, 0, 0), P3(3, 4, 0)),
     Plane_new(P3(0, 2, 0), P3(-4, 3, 0))}

\* two planes whose normals enclose an angle with sine 201/20201, below 1/100
NearlyParallelPlanes ==
    {Plane_new(P3(0, 4, 0), P3(0, 1, 0)),
     Plane_new(P3(0, 0, 0), P3(201, 20200, 0))}

InitReduction ==
    /\ \/ /\ pc = "hyperplanes"
          /\ \E family \in ReductionHyperplanes : args \in [plane : family, other : family]
       \/ /\ pc = "planes"
          /\ \/ args \in [plane : ReductionPlanes, other : ReductionPlanes]
             \/ args \in [plane : NearlyParallelPlanes, other : NearlyParallelPlanes]
    /\ loc = <<>>
    /\ ret = NotReturned

FromHyperplaneIntersection ==
    /\ pc = "hyperplanes"
    /\ pc' = "plane"
    /\ ret' = Plane_from_hyperplane_intersection(args.plane, args.other)
    /\ UNCHANGED <<args, loc>>

FromPlaneIntersection ==
    /\ pc = "planes"
    /\ pc' = "half_plane"
    /\ ret' = HalfPlane_from_plane_intersection(args.plane, args.other)
    /\ UNCHANGED <<args, loc>>

NextReduction == FromHyperplaneIntersection \/ FromPlaneIntersection

SpecReduction == InitReduction /\ [][NextReduction]_vars

ProbeCoordinates == {-6, -1, 0, 2, 7}

Probes3D == {P3(x, y, z) : x \in ProbeCoordinates, y \in ProbeCoordinates, z \in ProbeCoordinates}

Probes2D == {P2(x, y) : x \in ProbeCoordinates, y \in ProbeCoordinates}

\* pt is clearly on one side of the hyperplane: not in the band of width
\* EPSILON around its boundary, where the tolerance of contains decides
ClearOfHyperplane(h, pt) == FGt(FAbs(Hyperplane_signed_distance(h, pt)), EPSILON)

ClearOfPlane(plane, pt) == FGt(FAbs(Plane_signed_distance(plane, pt)), EPSILON)

\* C22: the 4D-to-3D reduction preserves membership: whenever
\* Plane::from_hyperplane_intersection(h_i, h_j) returns a plane P, then for
\* every 3D point q, P.contains(q) holds exactly when
\* h_j.contains(h_i.project_4d(q)) holds (here: for the probes q whose image
\* is clear of the boundary of h_j).
C22_HyperplaneReductionKeepsMembership ==
    (pc = "plane" /\ ret.some) =>
        \A q \in Probes3D :
            ClearOfHyperplane(args.other, Hyperplane_project_4d(args.plane, q)) =>
                (Plane_contains(ret.value, q)
                    <=> Hyperplane_contains(args.other, Hyperplane_project_4d(args.plane, q)))

Parallel(plane, other) == cross(plane.normal, other.normal) = P3(0, 0, 0)

\* the squared sine of the angle between the normals is below EPSILON
NearlyParallel(plane, other) ==
    FLt(length_squared(cross(plane.normal, other.normal)), EPSILON)

MembershipKept ==
    ret.some =>
        \A q \in Probes2D :
            ClearOfPlane(args.other, Plane_project_3d(args.plane, q)) =>
                (HalfPlane_contains(ret.value, q)
                    <=> Plane_contains(args.other, Plane_project_3d(args.plane, q)))

ClosestTime(vo, p) ==
    IF p = P3(0, 0, 0) THEN Zero
    ELSE FMax(Zero, FMin(vo.time_horizon,
                         FDiv(dot(p, vo.relative_position), length_squared(p))))

\* the square of the least distance of t * p to the relative position
ClearanceSquared(vo, p) ==
    length_squared(vsub(vmul(p, ClosestTime(vo, p)), vo.relative_position))

OnObstacleBoundary(vo, p) == ClearanceSquared(vo, p) = FMul(vo.shape.radius, vo.shape.radius)

StrictlyInsideObstacle(vo, p) ==
    FLt(ClearanceSquared(vo, p), FMul(vo.shape.radius, vo.shape.radius))

StrictlyInsideCutoff(vo) ==
    FLt(length_squared(vsub(vo.relative_velocity,
                            vmul(vo.relative_position, FDiv(One, vo.time_horizon)))),
        FMul(vo.cutoff_shape.radius, vo.cutoff_shape.radius))

\* u of orca_plane, from origin = agent_velocity + responsibility * u
OrcaU(vo, plane) == vmul(vsub(plane.origin, vo.agent_velocity), FDiv(One, vo.responsibility))

\* two spheres of some size that do not overlap, and a share of the avoidance to take
Avoiding(vo) ==
    /\ SphereColliders
    /\ FGt(vo.shape.radius, Zero)
    /\ ~Collider_contains(vo.shape, vo.relative_position)
    /\ IsFinite(vo.responsibility)
    /\ vo.responsibility # Zero

\* C24: in VelocityObstacle3D::orca_plane, u is the vector from the relative
\* velocity to the closest point of the boundary of the velocity obstacle,
\* for every relative velocity, including one strictly inside the cutoff
\* sphere: relative_velocity + u lies on the boundary of the obstacle, and
\* the normal points out of the obstacle there.
C24_UReachesBoundary ==
    (pc = "vo_done" /\ Avoiding(loc.vo) /\ ret.kind = "Plane" /\ VecFinite(ret.plane.normal)) =>
        /\ OnObstacleBoundary(loc.vo, vadd(loc.vo.relative_velocity, OrcaU(loc.vo, ret.plane)))
        /\ ~StrictlyInsideObstacle(loc.vo,
              vadd(vadd(loc.vo.relative_velocity, OrcaU(loc.vo, ret.plane)),
                   vmul(ret.plane.normal, Frac(1, 100))))

(***************************************************************************)
(* The cascade of optimize_velocity_3d                                     *)
(***************************************************************************)
\* optimize_velocity_3d called with a maximum speed that is not zero and a
\* preferred velocity that is not zero
InitCascade ==
    /\ InitOptimize
    /\ args.maximum_velocity # Zero
    /\ args.preffered_velocity # P3(0, 0, 0)

SpecCascade == InitCascade /\ [][NextOptimize]_vars

Result3D ==
    incremental_optimization_3d(args.preffered_velocity,
                                Sphere_new(args.maximum_velocity, P3(0, 0, 0)), args.planes)

Lifted(plane) ==
    Hyperplane_new(Append(plane.origin, Zero), Append(plane.normal, Frac(1, 5)))

\* C25: optimize_velocity_3d runs the 3D optimizer first and exactly once;
\* the 4D optimizer is invoked only if the 3D optimizer returned Infeasible,
\* with one hyperplane per input plane, in the order of the planes; and
\* when the 3D optimizer returns Feasible{v} the function returns exactly v.
C25_FallbackCascade ==
    [][/\ pc = "build" => pc' \in {"build", "solve3d"}
       /\ pc' = "build" => pc = "build"
       /\ pc' = "solve3d" => pc \in {"build", "solve3d"}
       /\ pc = "solve4d" => pc' \in {"solve4d", "returned", "panicked"}
       /\ (pc' = "solve4d" /\ pc # "solve4d") =>
             /\ pc = "solve3d"
             /\ Result3D.kind = "Infeasible"
             /\ Len(loc'.hyperplanes) = Len(args.planes)
             /\ \A k \in 1..Len(args.planes) : loc'.hyperplanes[k] = Lifted(args.planes[k])
       /\ (pc = "solve3d" /\ pc' = "returned") =>
             /\ ret'.exit = "3D Feasible"
             /\ Result3D = Feasible(ret'.velocity)
       /\ (pc' = "returned" /\ Result3D.kind = "Feasible") => ret'.exit = "3D Feasible"
      ]_vars

\* the 4D optimizer starts on the lifts of three planes of which the first
\* and the last differ
C25_Witness ==
    /\ pc = "solve4d"
    /\ loc.i = 0
    /\ Len(args.planes) = 3
    /\ args.planes[1] # args.planes[3]
    /\ Len(loc.hyperplanes) = 3

\* the 3D optimizer moved the velocity onto a plane and ended Feasible
C25_FeasibleWitness ==
    /\ pc = "returned"
    /\ ret.exit = "3D Feasible"
    /\ Len(args.planes) = 3
    /\ ret.velocity # Shape3D_constrain(Sphere_new(args.maximum_velocity, P3(0, 0, 0)),
                                        args.preffered_velocity)

Constrained3D == Shape3D_constrain(args.bounding_shape, args.preffered_velocity)

\* C26: if bounding_shape.constrain(preferred) already satisfies every plane
\* of the list (in particular when the list is empty),
\* incremental_optimization_3d returns Feasible with exactly that point.
C26_UnconstrainedOptimumReturned ==
    (pc = "done3d" /\ \A k \in 1..Len(args.planes) : Plane_contains(args.planes[k], Constrained3D)) =>
        ret = Feasible(Constrained3D)

\* three planes that all contain the point the sphere constrains the
\* preferred velocity to, which is not the preferred velocity itself
C26_Witness ==
    /\ pc = "done3d"
    /\ Len(args.planes) = 3
    /\ args.planes[1] # args.planes[2]
    /\ Constrained3D # args.preffered_velocity
    /\ \A k \in 1..3 : Plane_contains(args.planes[k], Constrained3D)
    /\ ret = Feasible(Constrained3D)

\* |velocity|^2 exceeds m^2 by more than (2 m + 1) * EPSILON, which is not
\* less than (m + EPSILON)^2 - m^2; as in f32, no comparison with NaN holds
AboveMaximum_by(excess, maximum_velocity) ==
    FGt(excess, Zero) /\ FGt(excess, FMul(FAdd(FMul(Two, maximum_velocity), One), EPSILON))

AboveMaximum(velocity, maximum_velocity) ==
    AboveMaximum_by(FSub(length_squared(velocity), FMul(maximum_velocity, maximum_velocity)),
                    maximum_velocity)

YawSampleCounts == {1, 2}

PitchSampleCounts == {1, 2, 3}

GridKeys(number_of_yaw_samples, number_of_pitch_samples) ==
    (0..number_of_yaw_samples) \X (0..number_of_pitch_samples)

GridSample(key) == Some(<< <<"start", key>>, <<"end", key>> >>)

InitGrid ==
    /\ pc = "call_grid"
    /\ \E number_of_yaw_samples \in YawSampleCounts, number_of_pitch_samples \in PitchSampleCounts :
          args = [number_of_yaw_samples |-> number_of_yaw_samples,
                  number_of_pitch_samples |-> number_of_pitch_samples]
    /\ loc = [points |-> <<>>, points_to_process |-> {}, triangles |-> {}]
    /\ ret = NotReturned

SampleGrid ==
    /\ pc = "call_grid"
    /\ pc' = "grid_pop"
    /\ loc' = [points |-> [key \in GridKeys(args.number_of_yaw_samples,
                                           args.number_of_pitch_samples) |-> GridSample(key)],
               points_to_process |-> GridKeys(args.number_of_yaw_samples,
                                              args.number_of_pitch_samples),
               triangles |-> {}]
    /\ UNCHANGED <<args, ret>>

PopGridSample ==
    /\ pc = "grid_pop"
    /\ \E key \in loc.points_to_process :
          loc' = [loc EXCEPT
                    !.points_to_process = @ \ {key},
                    !.triangles = @ \union Range(MeshKey(loc.points, key,
                                                         args.number_of_yaw_samples,
                                                         args.number_of_pitch_samples))]
    /\ UNCHANGED <<pc, args, ret>>

ReturnGrid ==
    /\ pc = "grid_pop"
    /\ loc.points_to_process = {}
    /\ pc' = "grid_done"
    /\ ret' = [kind |-> "Mesh", triangles |-> loc.triangles]
    /\ UNCHANGED <<args, loc>>

NextGrid == SampleGrid \/ PopGridSample \/ ReturnGrid

SpecGrid == InitGrid /\ [][NextGrid]_vars

\* the pitch rows of the samples whose start or end is a corner of the triangle
PitchRows(triangle) == {triangle[c][2][2] : c \in 1..3}

YawColumns(triangle) == {triangle[c][2][1] : c \in 1..3}

\* C28: the grid of construct_vo_mesh wraps in yaw but not in pitch: a
\* triangle only joins samples of pitch row r with samples of row r or
\* r + 1, and no triangle joins the last pitch row to the first, for every
\* number of yaw and pitch samples.
C28_NoPitchWrap ==
    \A triangle \in loc.triangles :
        \E r \in 0..args.number_of_pitch_samples : PitchRows(triangle) \subseteq {r, r + 1}

(***************************************************************************)
(* Specification SpecCollapse: incremental_optimization_2d on a list that  *)
(* starts with two half-planes bounding a strip around the y axis that is  *)
(* narrower than EPSILON, or slightly reversed, from a preferred velocity  *)
(* both of them contain within the tolerance; the caller may push more     *)
(* half-planes after them.                                                 *)
(***************************************************************************)
Strips ==
    {<<HalfPlane_new(P2(0, 0), P2(1, 0)), HalfPlane_new(<<Frac(1, 20000), Zero>>, P2(-1, 0))>>,
     <<HalfPlane_new(<<Frac(1, 20000), Zero>>, P2(1, 0)), HalfPlane_new(P2(0, 0), P2(-1, 0))>>,
     <<HalfPlane_new(<<Frac(1, 10000), Zero>>, P2(1, 0)), HalfPlane_new(P2(0, 0), P2(-3, -4))>>,
     <<HalfPlane_new(P2(-3, 0), P2(1, 0)), HalfPlane_new(P2(3, 0), P2(-1, 0))>>}

PreferredInStrip == {P2(0, -3), P2(0, -5)}

InitCollapse ==
    /\ pc = "build2d"
    /\ \E p \in PreferredInStrip, c \in Circles2D, strip \in Strips :
          args = [preffered_velocity |-> p, maximum_velocity |-> c, half_planes |-> strip]
    /\ loc = [i |-> 0, optimal_velocity |-> P2(0, 0)]
    /\ ret = NotReturned

SpecCollapse == InitCollapse /\ [][Next2D]_vars

\* the bounds on the line of half-plane i after the inner loop, when the
\* circle meets the line; NoBounds when the inner loop returned Infeasible
ClippedFrom(b) ==
    IF ~b.some THEN NoBounds
    ELSE ClipBounds(args.half_planes, loc.i, 0, args.half_planes[loc.i + 1].point,
                    perp(args.half_planes[loc.i + 1].normal), b)

Clipped ==
    ClippedFrom(get_bounds_on_line(args.maximum_velocity, args.half_planes[loc.i + 1].point,
                                   perp(args.half_planes[loc.i + 1].normal)))

NearlyEqual(b) == FLt(FAbs(FSub(b.min_bound, b.max_bound)), EPSILON)

PointOnBoundary(half_plane, t) == vadd(half_plane.point, vmul(perp(half_plane.normal), t))

\* the pass for half-plane i got through the inner loop with bounds b
CollapseCase(b) ==
    /\ b.some
    /\ NearlyEqual(b) =>
          /\ pc' = "loop2d"
          /\ loc'.i = loc.i + 1
          /\ loc'.optimal_velocity =
                 PointOnBoundary(args.half_planes[loc.i + 1],
                         FDiv(FAdd(b.min_bound, b.max_bound), Two))
    /\ (pc' = "done2d" /\ ret'.kind = "Infeasible")
          <=> (~NearlyEqual(b) /\ FGt(b.min_bound, b.max_bound))

\* C29: in incremental_optimization_2d, when after clipping the two bounds
\* differ by less than EPSILON (slightly reversed bounds included), both are
\* replaced by their average and the half-plane is treated as feasible at
\* that point; after the clipping, Infeasible is returned only when
\* min_bound > max_bound after this collapse.
C29_NearlyEmptyIntervalCollapses ==
    [][(/\ pc = "loop2d"
        /\ loc.i < Len(args.half_planes)
        /\ ~HalfPlane_contains(args.half_planes[loc.i + 1], loc.optimal_velocity)
        /\ Clipped.some)
           => CollapseCase(Clipped)]_vars

\* the third half-plane was cut by a strip whose bounds are reversed by half
\* of EPSILON, and the optimum is the middle of the two bounds
C29_Witness ==
    /\ pc = "loop2d"
    /\ loc.i = 3
    /\ args.half_planes[1] = HalfPlane_new(<<Frac(1, 20000), Zero>>, P2(1, 0))
    /\ args.half_planes[2] = HalfPlane_new(P2(0, 0), P2(-1, 0))
    /\ args.half_planes[3] = HalfPlane_new(P2(0, 0), P2(0, 1))
    /\ loc.optimal_velocity = <<Frac(1, 40000), Zero>>

(***************************************************************************)
(* Termination of hungarian.  Each pass of the while loop puts a column    *)
(* that was not in Z into Z, and Z holds at most one column per row begun, *)
(* so the loop ends; each pass of the augmenting loop moves one step along *)
(* prv towards the extra column w.                                         *)
(***************************************************************************)
InZ(l) == {w_ \in DOMAIN l.in_z : l.in_z[w_]}

\* following prv from column w_ reaches the extra column w in at most fuel steps
RECURSIVE PrvChainEnds(_, _, _)
PrvChainEnds(l, w_, fuel) ==
    \/ w_ = Len(args.cost[1])
    \/ /\ fuel > 0
       /\ l.prv[w_].some
       /\ PrvChainEnds(l, l.prv[w_].value, fuel - 1)

\* the search of a row has not got into a state that panics or cannot end
HungarianSafe ==
    /\ pc = "hungarian_done" => ret.kind = "Assigned"
    /\ pc = "while_job" =>
          /\ ~loc.in_z[loc.w_curr]
          /\ ~hungarian_no_job(loc)
          /\ Cardinality(InZ(loc)) <= loc.j_curr + 1
    /\ pc = "loop" => PrvChainEnds(loc, loc.w_curr, Len(args.cost[1]))

\* C30: for every cost matrix with finite entries and 1 <= rows <= columns,
\* hungarian terminates: the inner search loop ends for each row, the
\* panic 'No job found for worker' is unreachable, and the augmenting-path
\* loop never unwraps a missing predecessor.
C30_HungarianTerminates == hungarian_precondition(args.cost) => HungarianSafe

\* a square matrix of three rows ended with three triples
C30_Witness ==
    /\ pc = "hungarian_done"
    /\ Len(args.cost) = 3
    /\ Len(args.cost[1]) = 3
    /\ ret.kind = "Assigned"
    /\ Len(ret.triples) = 3

====
